---- MODULE Spec2Model ----
(***************************************************************************)
(* Model of the gotoken JWT library: compact serialization, base64url,     *)
(* header / payload codecs and the Marshal / Unmarshal token engine.       *)
(*                                                                         *)
(* Texts and byte slices are sequences of byte values (ASCII codes), so    *)
(* that encoding, splitting and tampering act on the real characters.      *)
(***************************************************************************)
EXTENDS Integers, Sequences, FiniteSets, TLC

(***************************************************************************)
(* String constants (as byte sequences)                                    *)
(***************************************************************************)
\* "HS256", "HS384", "HS512": the algorithm names of pkg/jwt/header.go
HS256 == <<72, 83, 50, 53, 54>>
HS384 == <<72, 83, 51, 56, 52>>
HS512 == <<72, 83, 53, 49, 50>>
\* "JWT": the token type marker of jwt/unmarshal.go
JWT == <<74, 87, 84>>

\* the constants of the package that re-exports the library under the name jwt
AliasHS256 == HS256
AliasHS384 == HS256
AliasHS512 == HS256

\* the constants of package gotoken
GotokenHS256 == HS256
GotokenHS384 == HS384
GotokenHS512 == HS512

\* other header strings callers may supply: "hs256", "none", "RS256", "INVALID"
LowerHS256 == <<104, 115, 50, 53, 54>>
LowerHS384 == <<104, 115, 51, 56, 52>>
MixedHS512 == <<72, 115, 53, 49, 50>>
AlgNone == <<110, 111, 110, 101>>
AlgRS256 == <<82, 83, 50, 53, 54>>
TypInvalid == <<73, 78, 86, 65, 76, 73, 68>>

\* the characters the engine itself handles
Dot == 46
Quote == 34
Colon == 58
Comma == 44
LBrace == 123
RBrace == 125

(***************************************************************************)
(* Error values                                                            *)
(***************************************************************************)
Nil == [kind |-> "nil", value |-> <<>>]
ErrInvalidToken == [kind |-> "ErrInvalidToken", value |-> <<>>]
ErrSignatureMismatch == [kind |-> "ErrSignatureMismatch", value |-> <<>>]
UnsupportedAlgorithmError(alg) == [kind |-> "UnsupportedAlgorithmError", value |-> alg]
UnsupportedTypeError(typ) == [kind |-> "UnsupportedTypeError", value |-> typ]
\* errors of the time validation of Claims
ErrTokenExpired == [kind |-> "ErrTokenExpired", value |-> <<>>]
ErrTokenNotValidYet == [kind |-> "ErrTokenNotValidYet", value |-> <<>>]
ErrTokenUsedBeforeIssued == [kind |-> "ErrTokenUsedBeforeIssued", value |-> <<>>]
\* pass-through format errors of the codec layer
ErrBase64 == [kind |-> "base64.CorruptInputError", value |-> <<>>]
ErrJSON == [kind |-> "json.Error", value |-> <<>>]

(***************************************************************************)
(* Base64URL codec (unpadded, URL-safe alphabet)                           *)
(***************************************************************************)
\* the character of the 6-bit value i
B64CharStandard(i) ==
    IF i < 26 THEN 65 + i
    ELSE IF i < 52 THEN 97 + (i - 26)
    ELSE IF i < 62 THEN 48 + (i - 52)
    ELSE IF i = 62 THEN 43
    ELSE 47

B64Char(i) ==
    IF i < 26 THEN 65 + i
    ELSE IF i < 52 THEN 97 + (i - 26)
    ELSE IF i < 62 THEN 48 + (i - 52)
    ELSE IF i = 62 THEN 45
    ELSE 95

\* the 6-bit value of character c, -1 when c is outside the alphabet
B64Index(c) ==
    IF c >= 65 /\ c <= 90 THEN c - 65
    ELSE IF c >= 97 /\ c <= 122 THEN c - 97 + 26
    ELSE IF c >= 48 /\ c <= 57 THEN c - 48 + 52
    ELSE IF c = 45 THEN 62
    ELSE IF c = 95 THEN 63
    ELSE -1

\* byte i of b, 0 past its end
ByteAt(b, i) == IF i <= Len(b) THEN b[i] ELSE 0

\* encoding.EncodeJWTBase64: every 3 bytes give 4 characters, a final group
\* of 1 or 2 bytes gives 2 or 3 characters, and no padding is written
EncodeJWTBase64(b) ==
    <<>> \o [j \in 1..((Len(b) * 4 + 2) \div 3) |->
        LET g == 3 * ((j - 1) \div 4)
            r == (j - 1) % 4
            b0 == ByteAt(b, g + 1)
            b1 == ByteAt(b, g + 2)
            b2 == ByteAt(b, g + 3)
        IN B64Char(IF r = 0 THEN b0 \div 4
                   ELSE IF r = 1 THEN (b0 % 4) * 16 + (b1 \div 16)
                   ELSE IF r = 2 THEN (b1 % 16) * 4 + (b2 \div 64)
                   ELSE b2 % 64)]

\* the decoder skips carriage returns and line feeds before decoding
IsNewline(c) == c = 10 \/ c = 13

StripNewlines(s) == SelectSeq(s, LAMBDA c : ~IsNewline(c))

\* s holds alphabet characters only and Len(s) % 4 # 1: every 4 characters
\* give 3 bytes; surplus bits of a final partial group are dropped
DecodeQuanta(s) ==
    <<>> \o [k \in 1..((Len(s) * 3) \div 4) |->
        LET g == 4 * ((k - 1) \div 3)
            r == (k - 1) % 3
            c0 == B64Index(s[g + 1])
            c1 == B64Index(s[g + 2])
            c2 == IF g + 3 <= Len(s) THEN B64Index(s[g + 3]) ELSE 0
            c3 == IF g + 4 <= Len(s) THEN B64Index(s[g + 4]) ELSE 0
        IN IF r = 0 THEN c0 * 4 + (c1 \div 16)
           ELSE IF r = 1 THEN (c1 % 16) * 16 + (c2 \div 4)
           ELSE (c2 % 4) * 64 + c3]

\* variant: trailing padding is tolerated
DecodeJWTBase64Padded(text) ==
    LET s == SelectSeq(text, LAMBDA c : ~IsNewline(c) /\ c # 61) IN
    IF (\E i \in 1..Len(s) : B64Index(s[i]) = -1) \/ Len(s) % 4 = 1
    THEN [ok |-> FALSE, bytes |-> <<>>]
    ELSE [ok |-> TRUE, bytes |-> DecodeQuanta(s)]

\* [ok, bytes]: ok = FALSE is the decoder's CorruptInputError
DecodeJWTBase64(text) ==
    LET s == StripNewlines(text) IN
    IF (\E i \in 1..Len(s) : B64Index(s[i]) = -1) \/ Len(s) % 4 = 1
    THEN [ok |-> FALSE, bytes |-> <<>>]
    ELSE [ok |-> TRUE, bytes |-> DecodeQuanta(s)]

(***************************************************************************)
(* Compact serialization                                                   *)
(***************************************************************************)
\* position of the first "." of s at or after index from, 0 when there is none
IndexDot(s, from) ==
    LET dots == {i \in from..Len(s) : s[i] = Dot} IN
    IF dots = {} THEN 0 ELSE CHOOSE i \in dots : \A j \in dots : i <= j

\* strings.SplitN(s, ".", 3)
SplitN3(s) ==
    LET d1 == IndexDot(s, 1) IN
    IF d1 = 0 THEN <<s>>
    ELSE LET d2 == IndexDot(s, d1 + 1) IN
        IF d2 = 0 THEN <<SubSeq(s, 1, d1 - 1), SubSeq(s, d1 + 1, Len(s))>>
        ELSE <<SubSeq(s, 1, d1 - 1), SubSeq(s, d1 + 1, d2 - 1), SubSeq(s, d2 + 1, Len(s))>>

\* variant: the signature is appended without its separator
b64valuesMarshalGlued(v) == v.header \o <<Dot>> \o v.payload \o v.signature

\* variant: an empty segment is left out together with its separator
b64valuesMarshalSkipsEmpty(v) ==
    LET withDot(x) == IF x = <<>> THEN <<>> ELSE <<Dot>> \o x IN
    IF v.header = <<>> /\ v.payload = <<>> THEN v.signature
    ELSE IF v.header = <<>> THEN v.payload \o withDot(v.signature)
    ELSE v.header \o withDot(v.payload) \o withDot(v.signature)

\* b64values.marshal
b64valuesMarshal(v) == v.header \o <<Dot>> \o v.payload \o <<Dot>> \o v.signature

\* variant: a missing segment is taken as empty
b64valuesUnmarshalLenient(s) ==
    LET fields == SplitN3(s) \o <<<<>>, <<>>>> IN
    [err |-> Nil,
     v |-> [header |-> fields[1], payload |-> fields[2], signature |-> fields[3]]]

\* variant: the text is cut at every separator and must give three fields
b64valuesUnmarshalEveryDot(s) ==
    LET fields == SplitN3(s) IN
    IF Len(fields) # 3 \/ IndexDot(fields[3], 1) # 0
    THEN [err |-> ErrInvalidToken,
          v |-> [header |-> <<>>, payload |-> <<>>, signature |-> <<>>]]
    ELSE [err |-> Nil,
          v |-> [header |-> fields[1], payload |-> fields[2], signature |-> fields[3]]]

\* b64values.unmarshal: [err, v]
b64valuesUnmarshal(s) ==
    LET fields == SplitN3(s) IN
    IF Len(fields) # 3
    THEN [err |-> ErrInvalidToken,
          v |-> [header |-> <<>>, payload |-> <<>>, signature |-> <<>>]]
    ELSE [err |-> Nil,
          v |-> [header |-> fields[1], payload |-> fields[2], signature |-> fields[3]]]

\* variant: the payload segment alone is signed
signingMessagePayloadOnly(v) == v.payload

\* signingMessage := b64vals.header + "." + b64vals.payload
signingMessage(v) == v.header \o <<Dot>> \o v.payload

(***************************************************************************)
(* Structured-data codec (JSON)                                            *)
(*                                                                         *)
(* Encoding is exact for the shapes the library encodes.  Decoding is      *)
(* exact on flat objects of string and unsigned-integer members without    *)
(* whitespace or escapes, on the literal null, and on texts that cannot    *)
(* start a JSON object; on every other text the outcome is left open       *)
(* (an error, or any decoded value).                                       *)
(***************************************************************************)
KeyAlg == <<97, 108, 103>>
KeyTyp == <<116, 121, 112>>
KeyIss == <<105, 115, 115>>
KeySub == <<115, 117, 98>>
KeyAud == <<97, 117, 100>>
KeyExp == <<101, 120, 112>>
KeyNbf == <<110, 98, 102>>
KeyIat == <<105, 97, 116>>
KeyJti == <<106, 116, 105>>
JSONNull == <<110, 117, 108, 108>>

\* decimal digits of a natural number
RECURSIVE FormatInt(_)
FormatInt(n) ==
    IF n < 10 THEN <<48 + n>>
    ELSE FormatInt(n \div 10) \o <<48 + (n % 10)>>

QuoteString(s) == <<Quote>> \o s \o <<Quote>>

StringMember(key, s) == QuoteString(key) \o <<Colon>> \o QuoteString(s)

IntMember(key, n) == QuoteString(key) \o <<Colon>> \o FormatInt(n)

\* members joined by "," inside braces
RECURSIVE JoinMembers(_)
JoinMembers(ms) ==
    IF Len(ms) = 0 THEN <<>>
    ELSE IF Len(ms) = 1 THEN ms[1]
    ELSE ms[1] \o <<Comma>> \o JoinMembers(Tail(ms))

JSONObject(ms) == <<LBrace>> \o JoinMembers(ms) \o <<RBrace>>

\* json encoding of Header{Alg, Typ}: both members always present
EncodeJSONHeader(h) ==
    JSONObject(<<StringMember(KeyAlg, h.Alg), StringMember(KeyTyp, h.Typ)>>)

\* members of a claims value; zero-valued fields are omitted
OptString(key, s) == IF s = <<>> THEN <<>> ELSE <<StringMember(key, s)>>

OptInt(key, n) == IF n = 0 THEN <<>> ELSE <<IntMember(key, n)>>

\* json encoding of a claims value: the Claims struct in declaration order
\* (omitempty), a map in sorted key order, nil as null
EncodeJSONClaims(c) ==
    IF c.kind = "nil" THEN JSONNull
    ELSE IF c.kind = "Map" THEN
        JSONObject(OptString(KeyAud, c.aud) \o OptInt(KeyExp, c.exp)
                   \o OptInt(KeyIat, c.iat) \o OptString(KeyIss, c.iss)
                   \o OptString(KeyJti, c.jti) \o OptInt(KeyNbf, c.nbf)
                   \o OptString(KeySub, c.sub))
    ELSE
        JSONObject(OptString(KeyIss, c.iss) \o OptString(KeySub, c.sub)
                   \o OptString(KeyAud, c.aud) \o OptInt(KeyExp, c.exp)
                   \o OptInt(KeyNbf, c.nbf) \o OptInt(KeyIat, c.iat)
                   \o OptString(KeyJti, c.jti))

IsStrChar(c) == c >= 32 /\ c <= 126 /\ c # Quote /\ c # 92

IsDigit(c) == c >= 48 /\ c <= 57

\* index of the quote closing the string whose first character is at i; 0 if none
RECURSIVE ScanString(_, _)
ScanString(b, i) ==
    IF i > Len(b) THEN 0
    ELSE IF b[i] = Quote THEN i
    ELSE IF IsStrChar(b[i]) THEN ScanString(b, i + 1)
    ELSE 0

\* index of the first non-digit at or after i
RECURSIVE ScanDigits(_, _)
ScanDigits(b, i) ==
    IF i <= Len(b) /\ IsDigit(b[i]) THEN ScanDigits(b, i + 1) ELSE i

RECURSIVE ParseInt(_)
ParseInt(d) ==
    IF Len(d) = 0 THEN 0
    ELSE ParseInt(SubSeq(d, 1, Len(d) - 1)) * 10 + (d[Len(d)] - 48)

\* longest digit string decoded exactly
MaxDigits == 9

\* members of an object from index i on: [ok, pairs]
RECURSIVE ParseMembers(_, _, _)
ParseMembers(b, i, acc) ==
    LET bad == [ok |-> FALSE, pairs |-> <<>>]
        kEnd == IF i <= Len(b) /\ b[i] = Quote THEN ScanString(b, i + 1) ELSE 0
    IN
    IF kEnd = 0 \/ kEnd + 2 > Len(b) \/ b[kEnd + 1] # Colon THEN bad
    ELSE
        LET key == SubSeq(b, i + 1, kEnd - 1)
            v == kEnd + 2
            isStr == b[v] = Quote
            sEnd == IF isStr THEN ScanString(b, v + 1) ELSE 0
            dEnd == IF isStr THEN 0 ELSE ScanDigits(b, v)
            okVal == IF isStr THEN sEnd # 0
                     ELSE /\ dEnd > v
                          /\ dEnd - v <= MaxDigits
                          /\ (b[v] # 48 \/ dEnd = v + 1)
            next == IF isStr THEN sEnd + 1 ELSE dEnd
            pair == [key |-> key, isStr |-> isStr,
                     str |-> IF isStr /\ okVal THEN SubSeq(b, v + 1, sEnd - 1) ELSE <<>>,
                     num |-> IF ~isStr /\ okVal THEN ParseInt(SubSeq(b, v, dEnd - 1)) ELSE 0]
        IN
        IF ~okVal \/ next > Len(b) THEN bad
        ELSE IF b[next] = RBrace
            THEN (IF next = Len(b) THEN [ok |-> TRUE, pairs |-> Append(acc, pair)] ELSE bad)
        ELSE IF b[next] = Comma THEN ParseMembers(b, next + 1, Append(acc, pair))
        ELSE bad

\* [class, pairs]: class is "object", "null", "invalid" (certainly no JSON
\* object or null) or "unknown" (outside the texts decoded exactly)
ParseJSON(b) ==
    IF b = JSONNull THEN [class |-> "null", pairs |-> <<>>]
    ELSE IF b = <<LBrace, RBrace>> THEN [class |-> "object", pairs |-> <<>>]
    ELSE IF Len(b) = 0 THEN [class |-> "invalid", pairs |-> <<>>]
    ELSE IF b[1] \notin {LBrace, 110, 32, 9, 10, 13} THEN [class |-> "invalid", pairs |-> <<>>]
    ELSE IF b[1] = LBrace /\ Len(b) >= 2 /\ b[2] \notin {Quote, RBrace, 32, 9, 10, 13}
        THEN [class |-> "invalid", pairs |-> <<>>]
    ELSE IF b[1] = LBrace THEN
        LET r == ParseMembers(b, 2, <<>>) IN
        IF r.ok THEN [class |-> "object", pairs |-> r.pairs]
        ELSE [class |-> "unknown", pairs |-> <<>>]
    ELSE [class |-> "unknown", pairs |-> <<>>]

\* ASCII case folding used to match member names to struct fields
FoldByte(c) == IF c >= 65 /\ c <= 90 THEN c + 32 ELSE c

Fold(s) == <<>> \o [i \in 1..Len(s) |-> FoldByte(s[i])]

\* the members of a decoded object stored into a Header, in order:
\* names match alg / typ without regard to case, other members are skipped;
\* ok = FALSE when a matching member is no string
RECURSIVE ApplyHeaderPairs(_, _)
ApplyHeaderPairs(pairs, h) ==
    IF Len(pairs) = 0 THEN [ok |-> TRUE, value |-> h]
    ELSE
        LET p == pairs[1]
            k == Fold(p.key)
        IN
        IF k \in {KeyAlg, KeyTyp} /\ ~p.isStr THEN [ok |-> FALSE, value |-> h]
        ELSE IF k = KeyAlg THEN ApplyHeaderPairs(Tail(pairs), [h EXCEPT !.Alg = p.str])
        ELSE IF k = KeyTyp THEN ApplyHeaderPairs(Tail(pairs), [h EXCEPT !.Typ = p.str])
        ELSE ApplyHeaderPairs(Tail(pairs), h)

\* the members of a decoded object stored into a claims target, in order.
\* A Claims struct matches names without regard to case and skips other
\* members; a map target is followed for the seven standard names only.
\* ok = FALSE when the member is outside what is followed exactly.
RECURSIVE ApplyClaimsPairs(_, _)
ApplyClaimsPairs(pairs, c) ==
    IF Len(pairs) = 0 THEN [ok |-> TRUE, value |-> c]
    ELSE
        LET p == pairs[1]
            k == IF c.kind = "Map" THEN p.key ELSE Fold(p.key)
            strKeys == {KeyIss, KeySub, KeyAud, KeyJti}
            intKeys == {KeyExp, KeyNbf, KeyIat}
        IN
        IF k \in strKeys /\ ~p.isStr THEN [ok |-> FALSE, value |-> c]
        ELSE IF k \in intKeys /\ p.isStr THEN [ok |-> FALSE, value |-> c]
        ELSE IF k = KeyIss THEN ApplyClaimsPairs(Tail(pairs), [c EXCEPT !.iss = p.str])
        ELSE IF k = KeySub THEN ApplyClaimsPairs(Tail(pairs), [c EXCEPT !.sub = p.str])
        ELSE IF k = KeyAud THEN ApplyClaimsPairs(Tail(pairs), [c EXCEPT !.aud = p.str])
        ELSE IF k = KeyJti THEN ApplyClaimsPairs(Tail(pairs), [c EXCEPT !.jti = p.str])
        ELSE IF k = KeyExp THEN ApplyClaimsPairs(Tail(pairs), [c EXCEPT !.exp = p.num])
        ELSE IF k = KeyNbf THEN ApplyClaimsPairs(Tail(pairs), [c EXCEPT !.nbf = p.num])
        ELSE IF k = KeyIat THEN ApplyClaimsPairs(Tail(pairs), [c EXCEPT !.iat = p.num])
        ELSE IF c.kind = "Map" THEN [ok |-> FALSE, value |-> c]
        ELSE ApplyClaimsPairs(Tail(pairs), c)

\* encoding.DecodeJSON(b, &h) for a Header h: the set of possible [err, value].
\* others: the values an unfollowed text may decode to
DecodeJSONHeader(b, h, others) ==
    LET p == ParseJSON(b)
        open == {[err |-> ErrJSON, value |-> h]} \cup {[err |-> Nil, value |-> x] : x \in others}
    IN
    IF p.class = "null" THEN {[err |-> Nil, value |-> h]}
    ELSE IF p.class = "invalid" THEN {[err |-> ErrJSON, value |-> h]}
    ELSE IF p.class = "object" THEN
        LET r == ApplyHeaderPairs(p.pairs, h) IN
        IF r.ok THEN {[err |-> Nil, value |-> r.value]} ELSE open
    ELSE open

\* encoding.DecodeJSON(b, claims) for a claims target holding c
DecodeJSONClaims(b, c, others) ==
    LET p == ParseJSON(b)
        vals == {[x EXCEPT !.kind = c.kind] : x \in others}
        open == {[err |-> ErrJSON, value |-> x] : x \in vals \cup {c}}
                \cup {[err |-> Nil, value |-> x] : x \in vals}
    IN
    IF p.class = "null" THEN {[err |-> Nil, value |-> c]}
    ELSE IF p.class = "invalid" THEN {[err |-> ErrJSON, value |-> c]}
    ELSE IF p.class = "object" THEN
        LET r == ApplyClaimsPairs(p.pairs, c) IN
        IF r.ok THEN {[err |-> Nil, value |-> r.value]} ELSE open
    ELSE open

(***************************************************************************)
(* Keyed-hash primitive (HMAC over SHA-256 / SHA-384 / SHA-512)            *)
(*                                                                         *)
(* The hash functions are stand-ins: a digest of the right length that is  *)
(* determined by two polynomial fingerprints of the input.  The HMAC key   *)
(* handling is the real one: a key longer than the hash block is hashed,   *)
(* and the key is then padded with zero bytes to the block length.         *)
(***************************************************************************)
\* digest length in bytes
HashSize(hash) == IF hash = "SHA256" THEN 32 ELSE IF hash = "SHA384" THEN 48 ELSE 64

\* block length in bytes
HashBlockSize(hash) == IF hash = "SHA256" THEN 64 ELSE 128

\* <<h, p>> of a range from those of its two halves
PolyJoin(l, r, modulus) == <<(l[1] * r[2] + r[1]) % modulus, (l[2] * r[2]) % modulus>>

\* <<h, p>> for data[lo..hi]: h is the polynomial sum of the bytes at base,
\* p is base to the power of the length, both modulo modulus
RECURSIVE PolyRange(_, _, _, _, _)
PolyRange(data, lo, hi, base, modulus) ==
    IF lo > hi THEN <<0, 1>>
    ELSE IF lo = hi THEN <<(data[lo] + 1) % modulus, base % modulus>>
    ELSE PolyJoin(PolyRange(data, lo, (lo + hi) \div 2, base, modulus),
                  PolyRange(data, (lo + hi) \div 2 + 1, hi, base, modulus),
                  modulus)

Fingerprint(data, seed, base, modulus) ==
    LET hp == PolyRange(data, 1, Len(data), base, modulus)
    IN (seed * hp[2] + hp[1]) % modulus

\* n digest bytes determined by the fingerprints f1 and f2
DigestBytes(n, f1, f2) ==
    <<>> \o [k \in 1..n |->
                IF k = 1 THEN f1 \div 256
                ELSE IF k = 2 THEN f1 % 256
                ELSE IF k = 3 THEN f2 \div 256
                ELSE IF k = 4 THEN f2 % 256
                ELSE (f1 * k + f2 + k * k) % 256]

\* stand-in for the hash function named hash, applied to data
HashSum(hash, data) ==
    DigestBytes(HashSize(hash),
                Fingerprint(data, HashSize(hash), 257, 32749),
                Fingerprint(data, HashSize(hash), 263, 32719))

\* the key block of HMAC: hash a long key, then pad with zeros to the block
HMACKeyBlock(hash, key) ==
    LET k0 == IF Len(key) > HashBlockSize(hash) THEN HashSum(hash, key) ELSE key
    IN <<>> \o [i \in 1..HashBlockSize(hash) |-> IF i <= Len(k0) THEN k0[i] ELSE 0]

\* crypto.NewHMAC(h, secret) followed by Write(message) and Sum(nil)
HMACSum(hash, secret, message) == HashSum(hash, HMACKeyBlock(hash, secret) \o message)

\* crypto.Equal: equality of two byte slices
CryptoEqual(a, b) == a = b

\* variant: the comparison stops at the first pair of bytes that differ
CryptoEqualComparedEarlyExit(a, b) ==
    {i \in 1..(IF Len(a) < Len(b) THEN Len(a) ELSE Len(b)) :
        \A j \in 1..(i - 1) : a[j] = b[j]}

\* crypto.Equal: the positions at which it compares a byte of a with a byte
\* of b; none when the lengths differ, every position otherwise
CryptoEqualCompared(a, b) == IF Len(a) # Len(b) THEN {} ELSE DOMAIN a

(***************************************************************************)
(* Header                                                                  *)
(***************************************************************************)
ToUpperByte(c) == IF c >= 97 /\ c <= 122 THEN c - 32 ELSE c

\* strings.ToUpper
ToUpper(s) == <<>> \o [i \in 1..Len(s) |-> ToUpperByte(s[i])]

\* variant: the alg is matched as it is written
HeaderSignerExactCase(h) ==
    IF h.Alg = HS256 THEN [err |-> Nil, hash |-> "SHA256"]
    ELSE IF h.Alg = HS384 THEN [err |-> Nil, hash |-> "SHA384"]
    ELSE IF h.Alg = HS512 THEN [err |-> Nil, hash |-> "SHA512"]
    ELSE [err |-> UnsupportedAlgorithmError(h.Alg), hash |-> "none"]

\* variant: an unrecognised alg falls back to HMAC-SHA256
HeaderSignerDefaultsToHS256(h) ==
    LET a == ToUpper(h.Alg) IN
    IF a = HS384 THEN [err |-> Nil, hash |-> "SHA384"]
    ELSE IF a = HS512 THEN [err |-> Nil, hash |-> "SHA512"]
    ELSE [err |-> Nil, hash |-> "SHA256"]

\* Header.signer: [err, hash]
HeaderSigner(h) ==
    LET a == ToUpper(h.Alg) IN
    IF a = HS256 THEN [err |-> Nil, hash |-> "SHA256"]
    ELSE IF a = HS384 THEN [err |-> Nil, hash |-> "SHA384"]
    ELSE IF a = HS512 THEN [err |-> Nil, hash |-> "SHA512"]
    ELSE [err |-> UnsupportedAlgorithmError(h.Alg), hash |-> "none"]

\* Header.marshal (json encoding of a Header cannot fail)
HeaderMarshal(h) == EncodeJWTBase64(EncodeJSONHeader(h))

\* payload.marshal (json encoding of the modelled claims values cannot fail)
PayloadMarshal(c) == EncodeJWTBase64(EncodeJSONClaims(c))

\* token.marshal as a function of its inputs: [token, err]
TokenMarshal(h, c, secret) ==
    LET sg == HeaderSigner(h) IN
    IF sg.err # Nil THEN [token |-> <<>>, err |-> sg.err]
    ELSE
        LET tokenHeader == HeaderMarshal(h)
            tokenPayload == PayloadMarshal(c)
            message == signingMessage([header |-> tokenHeader, payload |-> tokenPayload,
                                       signature |-> <<>>])
            tokenSignature == EncodeJWTBase64(HMACSum(sg.hash, secret, message))
        IN [token |-> b64valuesMarshal([header |-> tokenHeader,
                                         payload |-> tokenPayload,
                                         signature |-> tokenSignature]),
            err |-> Nil]

(***************************************************************************)
(* Claims and their time validation                                        *)
(***************************************************************************)
\* a claims value: kind is "Claims" (the standard struct, or a struct that
\* embeds it), "Struct" (a plain struct with the same fields and no Valid
\* method), "Map" (a generic key-value mapping) or "nil"
MkClaims(kind, iss, sub, aud, exp, nbf, iat, jti) ==
    [kind |-> kind, iss |-> iss, sub |-> sub, aud |-> aud,
     exp |-> exp, nbf |-> nbf, iat |-> iat, jti |-> jti]

ZeroClaims(kind) == MkClaims(kind, <<>>, <<>>, <<>>, 0, 0, 0, <<>>)

\* variant: a token is still accepted at the second it expires
ValidFailuresExpiryLate(c, t) ==
    (IF c.exp # 0 /\ c.exp < t THEN {ErrTokenExpired} ELSE {})
    \cup (IF c.nbf # 0 /\ c.nbf > t THEN {ErrTokenNotValidYet} ELSE {})
    \cup (IF c.iat # 0 /\ c.iat > t THEN {ErrTokenUsedBeforeIssued} ELSE {})

\* the checks of Claims.Valid that fail for c at time t
ValidFailures(c, t) ==
    (IF c.exp # 0 /\ c.exp <= t THEN {ErrTokenExpired} ELSE {})
    \cup (IF c.nbf # 0 /\ c.nbf > t THEN {ErrTokenNotValidYet} ELSE {})
    \cup (IF c.iat # 0 /\ c.iat > t THEN {ErrTokenUsedBeforeIssued} ELSE {})

\* Claims.Valid at time t: the errors it may return (nil when no check fails)
ClaimsValid(c, t) == IF ValidFailures(c, t) = {} THEN {Nil} ELSE ValidFailures(c, t)

(***************************************************************************)
(* Input domains                                                           *)
(***************************************************************************)
\* the clock starts at Epoch and advances at most MaxTick seconds
Epoch == 1000
MaxTick == 2

Times == Epoch..(Epoch + MaxTick)

\* values of a time field: absent, and around the clock's range
TimeValues == {0} \cup ((Epoch - 1)..(Epoch + MaxTick + 1))

Algs == {HS256, HS384, HS512, LowerHS256, LowerHS384, MixedHS512, <<>>, AlgNone, AlgRS256}

Typs == {JWT, <<>>, TypInvalid}

Headers == [Alg : Algs, Typ : Typs]

ZeroHeader == [Alg |-> <<>>, Typ |-> <<>>]

\* "u", "user-456", "my-app", "api", "id1"
SubU == <<117>>
SubUser456 == <<117, 115, 101, 114, 45, 52, 53, 54>>
IssMyApp == <<109, 121, 45, 97, 112, 112>>
AudApi == <<97, 112, 105>>
JtiId1 == <<105, 100, 49>>

Future == Epoch + MaxTick + 1
Past == Epoch - 1

SubUClaims == MkClaims("Claims", <<>>, SubU, <<>>, 0, 0, 0, <<>>)

\* claims values passed to Marshal
ClaimsIn ==
    { ZeroClaims("Claims"),
      SubUClaims,
      MkClaims("Claims", <<>>, SubUser456, <<>>, Future, 0, 0, <<>>),
      MkClaims("Claims", IssMyApp, SubU, AudApi, Future, Past, Past, JtiId1),
      MkClaims("Claims", <<>>, <<>>, <<>>, Epoch, 0, 0, <<>>),
      MkClaims("Claims", <<>>, <<>>, <<>>, 0, Future, 0, <<>>),
      MkClaims("Claims", <<>>, <<>>, <<>>, 0, 0, Future, <<>>),
      MkClaims("Map", <<>>, SubU, <<>>, Past, 0, 0, <<>>),
      ZeroClaims("nil") }

\* claims targets passed to Unmarshal: fresh ones, and one already filled
FilledTarget == MkClaims("Claims", IssMyApp, <<>>, <<>>, Past, 0, 0, <<>>)

Targets == {ZeroClaims("Claims"), ZeroClaims("Struct"), ZeroClaims("Map"), FilledTarget}

\* secrets: empty, one zero byte, "k", and one longer than every hash block
LongSecretLen == 129
LongSecret == <<>> \o [i \in 1..LongSecretLen |-> i % 256]
SecretK == <<107>>
Secrets == {<<>>, <<0>>, SecretK, LongSecret}

\* headers Marshal accepts
SignableHeaders == {h \in Headers : HeaderSigner(h).err = Nil}

\* the tokens that are tampered with: one per supported algorithm
TamperBases == {<<[Alg |-> a, Typ |-> JWT], SubUClaims, SecretK>> : a \in {HS256, HS384, HS512}}

\* replacement characters: "A", "_", ".", "=", and a line feed
TamperChars == {65, 95, Dot, 61, 10}

\* index of the second "." of a token
SecondDot(tok) == IndexDot(tok, IndexDot(tok, 1) + 1)

\* positions of the header and payload segments of a token
SegmentPositions(tok) == (1..(SecondDot(tok) - 1)) \ {IndexDot(tok, 1)}

\* "{invalid json}", "header!", "pay=load", "sig!", ".x"
TextInvalidJSON == <<123, 105, 110, 118, 97, 108, 105, 100, 32, 106, 115, 111, 110, 125>>
TextBadHeader == <<104, 101, 97, 100, 101, 114, 33>>
TextBadPayload == <<112, 97, 121, 61, 108, 111, 97, 100>>
TextBadSig == <<115, 105, 103, 33>>
TextDotX == <<46, 120>>

\* header segments of crafted tokens
CraftHeaderSegs ==
    { HeaderMarshal([Alg |-> HS256, Typ |-> JWT]),
      HeaderMarshal([Alg |-> AlgNone, Typ |-> JWT]),
      HeaderMarshal([Alg |-> <<>>, Typ |-> JWT]),
      EncodeJWTBase64(JSONObject(<<StringMember(KeyTyp, JWT), StringMember(KeyAlg, HS256)>>)),
      EncodeJWTBase64(TextInvalidJSON),
      TextBadHeader,
      <<>> }

\* payload segments of crafted tokens
CraftPayloadSegs ==
    { PayloadMarshal(MkClaims("Claims", <<>>, SubU, <<>>, Future, 0, 0, <<>>)),
      PayloadMarshal(MkClaims("Claims", <<>>, SubU, <<>>, Past, 0, 0, <<>>)),
      EncodeJWTBase64(TextInvalidJSON),
      TextBadPayload,
      <<>> }

CraftSigKinds ==
    {"SHA256", "SHA384", "SHA512", "badb64", "empty", "prefix", "extended", "padded", "dotted"}

\* the signature segment of a crafted token over message m, made with SecretK
CraftSig(kind, m) ==
    LET d == HMACSum("SHA256", SecretK, m) IN
    IF kind \in {"SHA256", "SHA384", "SHA512"} THEN EncodeJWTBase64(HMACSum(kind, SecretK, m))
    ELSE IF kind = "badb64" THEN TextBadSig
    ELSE IF kind = "empty" THEN <<>>
    ELSE IF kind = "prefix" THEN EncodeJWTBase64(SubSeq(d, 1, Len(d) - 1))
    ELSE IF kind = "extended" THEN EncodeJWTBase64(d \o <<0>>)
    ELSE IF kind = "padded" THEN EncodeJWTBase64(d) \o <<61>>
    ELSE EncodeJWTBase64(d) \o TextDotX

CraftToken(hs, ps, kind) ==
    hs \o <<Dot>> \o ps \o <<Dot>> \o CraftSig(kind, hs \o <<Dot>> \o ps)

\* "a", "header.payload", "invalid.token", "a.b.c.d"
TextA == <<97>>
TextHeaderPayload == <<104, 101, 97, 100, 101, 114, 46, 112, 97, 121, 108, 111, 97, 100>>
TextInvalidToken == <<105, 110, 118, 97, 108, 105, 100, 46, 116, 111, 107, 101, 110>>
TextABCD == <<97, 46, 98, 46, 99, 46, 100>>

\* a valid token cut before its second "."
Unsigned(tok) == SubSeq(tok, 1, SecondDot(tok) - 1)

\* texts given to Unmarshal as they are
RawTexts ==
    { <<>>, TextA, <<Dot>>, TextHeaderPayload, TextInvalidToken, <<Dot, Dot>>, TextABCD }
    \cup {Unsigned(TokenMarshal(b[1], b[2], b[3]).token) : b \in TamperBases}

(***************************************************************************)
(* State                                                                   *)
(***************************************************************************)
VARIABLES
    now,                \* the clock, in seconds
    op,                 \* the call in progress: "none", "Marshal", "Unmarshal", "Valid"
    pc,                 \* the step the call is at
    header,             \* token.header
    claims,             \* token.payload.claims (for Unmarshal: the caller's target)
    secret,             \* the secret argument
    jws,                \* the jws argument of Unmarshal
    b64vals,            \* the b64values of the call
    signer,             \* the hash of the resolved HMAC, "none" before
    expectedSignature,  \* token.unmarshal: the decoded signature segment
    computedSignature,  \* token.unmarshal: signer.Sum(nil)
    token,              \* the string Marshal returns
    err,                \* the error the call returns
    origin,             \* how the arguments of the call were made
    ran,                \* the steps the call has executed, in order
    codec,              \* a direct use of the base64url codec: its input and result
    calls               \* the calls of concurrent callers: each one's arguments and context

vars == <<now, codec, calls, op, pc, header, claims, secret, jws, b64vals, signer,
          expectedSignature, computedSignature, token, err, origin, ran>>

ZeroB64 == [header |-> <<>>, payload |-> <<>>, signature |-> <<>>]

NoOrigin ==
    [kind |-> "none", header |-> ZeroHeader, claims |-> ZeroClaims("nil"),
     secret |-> <<>>, target |-> ZeroClaims("nil"), pos |-> 0, ch |-> 0]

Idle ==
    /\ op = "none" /\ pc = "idle"
    /\ header = ZeroHeader /\ claims = ZeroClaims("nil") /\ secret = <<>>
    /\ jws = <<>> /\ b64vals = ZeroB64 /\ signer = "none"
    /\ expectedSignature = <<>> /\ computedSignature = <<>>
    /\ token = <<>> /\ err = Nil /\ origin = NoOrigin /\ ran = <<>>

\* no use of the codec in progress
NoCodec == [fn |-> "none", input |-> <<>>, text |-> <<>>, ok |-> TRUE, output |-> <<>>]

\* concurrent callers
NProcs == 2

Procs == 1..NProcs

\* the context of a call: the token it allocates and its local variables
IdleCall ==
    [op |-> "none", pc |-> "idle", header |-> ZeroHeader, claims |-> ZeroClaims("nil"),
     secret |-> <<>>, jws |-> <<>>, b64vals |-> ZeroB64, signer |-> "none",
     expectedSignature |-> <<>>, computedSignature |-> <<>>, token |-> <<>>, err |-> Nil]

NoCall == [start |-> IdleCall, ctx |-> IdleCall]

Init == now = Epoch /\ codec = NoCodec /\ calls = [p \in Procs |-> NoCall] /\ Idle

\* time passes between calls
Tick ==
    /\ pc = "idle" /\ now < Epoch + MaxTick
    /\ now' = now + 1
    /\ UNCHANGED <<codec, calls, op, pc, header, claims, secret, jws, b64vals, signer,
                   expectedSignature, computedSignature, token, err, origin, ran>>

\* the call returns; its context is discarded
Return ==
    /\ pc = "done"
    /\ op' = "none" /\ pc' = "idle"
    /\ header' = ZeroHeader /\ claims' = ZeroClaims("nil") /\ secret' = <<>>
    /\ jws' = <<>> /\ b64vals' = ZeroB64 /\ signer' = "none"
    /\ expectedSignature' = <<>> /\ computedSignature' = <<>>
    /\ token' = <<>> /\ err' = Nil /\ origin' = NoOrigin /\ ran' = <<>>
    /\ UNCHANGED <<now, codec, calls>>

(***************************************************************************)
(* Claims.Valid                                                            *)
(***************************************************************************)
ValidInputs ==
    {MkClaims("Claims", <<>>, <<>>, <<>>, e, n, i, <<>>) : e \in TimeValues, n \in TimeValues, i \in TimeValues}

\* c.Valid(): c is checked against the clock
ValidCall ==
    /\ pc = "idle"
    /\ \E c \in ValidInputs : \E e \in ClaimsValid(c, now) :
        /\ op' = "Valid" /\ pc' = "done" /\ claims' = c /\ err' = e
        /\ ran' = <<"valid">>
    /\ UNCHANGED <<now, codec, calls, header, secret, jws, b64vals, signer,
                   expectedSignature, computedSignature, token, origin>>

(***************************************************************************)
(* Marshal (jwt/marshal.go) and token.marshal                              *)
(***************************************************************************)
\* Marshal(header, claims, secret): the token is built and token.marshal entered
MarshalBegin ==
    /\ pc = "idle"
    /\ \E h \in Headers, c \in ClaimsIn, s \in Secrets :
        /\ op' = "Marshal" /\ pc' = "m_signer"
        /\ header' = h /\ claims' = c /\ secret' = s
        /\ origin' = [NoOrigin EXCEPT !.kind = "args", !.header = h, !.claims = c, !.secret = s]
    /\ UNCHANGED <<now, codec, calls, jws, b64vals, signer, expectedSignature, computedSignature,
                   token, err, ran>>

\* signer, err := t.header.signer(secret)
MSigner ==
    /\ pc = "m_signer"
    /\ LET sg == HeaderSigner(header) IN
        /\ signer' = sg.hash
        /\ err' = sg.err
        /\ pc' = IF sg.err # Nil THEN "done" ELSE "m_header"
    /\ ran' = Append(ran, "signer")
    /\ UNCHANGED <<now, codec, calls, op, header, claims, secret, jws, b64vals,
                   expectedSignature, computedSignature, token, origin>>

\* tokenHeader, err := t.header.marshal()
MHeader ==
    /\ pc = "m_header"
    /\ b64vals' = [b64vals EXCEPT !.header = HeaderMarshal(header)]
    /\ pc' = "m_payload"
    /\ ran' = Append(ran, "header")
    /\ UNCHANGED <<now, codec, calls, op, header, claims, secret, jws, signer,
                   expectedSignature, computedSignature, token, err, origin>>

\* variant: the payload is stamped with the time of issue when it carries none
MPayloadStampsIssuedAt ==
    /\ pc = "m_payload"
    /\ b64vals' = [b64vals EXCEPT !.payload =
                      PayloadMarshal([claims EXCEPT !.iat = IF @ = 0 THEN now ELSE @])]
    /\ pc' = "m_sign"
    /\ ran' = Append(ran, "payload")
    /\ UNCHANGED <<now, codec, calls, op, header, claims, secret, jws, signer,
                   expectedSignature, computedSignature, token, err, origin>>

\* tokenPayload, err := t.payload.marshal()
MPayload ==
    /\ pc = "m_payload"
    /\ b64vals' = [b64vals EXCEPT !.payload = PayloadMarshal(claims)]
    /\ pc' = "m_sign"
    /\ ran' = Append(ran, "payload")
    /\ UNCHANGED <<now, codec, calls, op, header, claims, secret, jws, signer,
                   expectedSignature, computedSignature, token, err, origin>>

\* variant: the JSON texts are signed, not their encoded segments
MSignSignsJSON ==
    /\ pc = "m_sign"
    /\ \E sum \in {HMACSum(signer, secret,
                            EncodeJSONHeader(header) \o <<Dot>> \o EncodeJSONClaims(claims))} :
          /\ computedSignature' = sum
          /\ b64vals' = [b64vals EXCEPT !.signature = EncodeJWTBase64(sum)]
    /\ pc' = "m_join"
    /\ ran' = Append(ran, "sign")
    /\ UNCHANGED <<now, codec, calls, op, header, claims, secret, jws, signer,
                   expectedSignature, token, err, origin>>

\* signer.Write(signingMessage); tokenSignature := EncodeJWTBase64(signer.Sum(nil))
MSign ==
    /\ pc = "m_sign"
    /\ \E sum \in {HMACSum(signer, secret, signingMessage(b64vals))} :
          /\ computedSignature' = sum
          /\ b64vals' = [b64vals EXCEPT !.signature = EncodeJWTBase64(sum)]
    /\ pc' = "m_join"
    /\ ran' = Append(ran, "sign")
    /\ UNCHANGED <<now, codec, calls, op, header, claims, secret, jws, signer,
                   expectedSignature, token, err, origin>>

\* return b64vals.marshal(), nil
MJoin ==
    /\ pc = "m_join"
    /\ token' = b64valuesMarshal(b64vals)
    /\ err' = Nil
    /\ pc' = "done"
    /\ ran' = Append(ran, "join")
    /\ UNCHANGED <<now, codec, calls, op, header, claims, secret, jws, b64vals, signer,
                   expectedSignature, computedSignature, origin>>


(***************************************************************************)
(* Unmarshal (jwt/unmarshal.go) and token.unmarshal                        *)
(***************************************************************************)
\* Unmarshal(text, target, s): the token is built and token.unmarshal entered
UnmarshalBegin(text, target, s, o) ==
    /\ pc = "idle"
    /\ op' = "Unmarshal" /\ pc' = "u_split"
    /\ jws' = text /\ claims' = target /\ secret' = s
    /\ origin' = [o EXCEPT !.target = target]
    /\ UNCHANGED <<now, codec, calls, header, b64vals, signer, expectedSignature,
                   computedSignature, token, err, ran>>

\* the text is a token Marshal returned for (h, c, s), given back with the
\* same secret and any target, or with any other secret and the filled target
UnmarshalMinted ==
    /\ pc = "idle"
    /\ \E h \in SignableHeaders, c \in ClaimsIn, s \in Secrets :
        \E tok \in {TokenMarshal(h, c, s).token} :
        \E s2 \in Secrets, tg \in Targets :
            /\ s2 = s \/ tg = FilledTarget
            /\ UnmarshalBegin(tok, tg, s2,
                              [NoOrigin EXCEPT !.kind = "minted", !.header = h,
                                               !.claims = c, !.secret = s])

\* the text is a token Marshal returned with one byte of its header or
\* payload segment replaced; the secret is the one it was signed with
UnmarshalTampered ==
    /\ pc = "idle"
    /\ \E b \in TamperBases :
        \E tok \in {TokenMarshal(b[1], b[2], b[3]).token} :
        \E p \in SegmentPositions(tok), ch \in TamperChars :
            /\ tok[p] # ch
            /\ UnmarshalBegin([tok EXCEPT ![p] = ch], ZeroClaims("Claims"), b[3],
                              [NoOrigin EXCEPT !.kind = "tampered", !.header = b[1],
                                               !.claims = b[2], !.secret = b[3],
                                               !.pos = p, !.ch = ch])

\* the text is put together from chosen segments
UnmarshalCrafted ==
    /\ pc = "idle"
    /\ \E hs \in CraftHeaderSegs, ps \in CraftPayloadSegs, k \in CraftSigKinds :
        UnmarshalBegin(CraftToken(hs, ps, k), ZeroClaims("Claims"), SecretK,
                       [NoOrigin EXCEPT !.kind = "crafted"])

\* the text is any text
UnmarshalRaw ==
    /\ pc = "idle"
    /\ \E text \in RawTexts, s \in Secrets, tg \in Targets :
        UnmarshalBegin(text, tg, s, [NoOrigin EXCEPT !.kind = "raw"])

\* variant: the target is set to its zero value before the text is read
USplitClearsTarget ==
    /\ pc = "u_split"
    /\ LET r == b64valuesUnmarshal(jws) IN
        /\ b64vals' = r.v
        /\ err' = r.err
        /\ pc' = IF r.err # Nil THEN "done" ELSE "u_decodesig"
    /\ claims' = ZeroClaims(claims.kind)
    /\ ran' = Append(ran, "split")
    /\ UNCHANGED <<now, codec, calls, op, header, secret, jws, signer,
                   expectedSignature, computedSignature, token, origin>>

\* b64vals.unmarshal(jws)
USplit ==
    /\ pc = "u_split"
    /\ \E r \in {b64valuesUnmarshal(jws)} :
        /\ b64vals' = r.v
        /\ err' = r.err
        /\ pc' = IF r.err # Nil THEN "done" ELSE "u_decodesig"
    /\ ran' = Append(ran, "split")
    /\ UNCHANGED <<now, codec, calls, op, header, claims, secret, jws, signer,
                   expectedSignature, computedSignature, token, origin>>

\* variant: the decoder's own error is returned
UDecodeSigPropagates ==
    /\ pc = "u_decodesig"
    /\ \E d \in {DecodeJWTBase64(b64vals.signature)} :
        /\ expectedSignature' = d.bytes
        /\ err' = IF d.ok THEN Nil ELSE ErrBase64
        /\ pc' = IF d.ok THEN "u_header" ELSE "done"
    /\ ran' = Append(ran, "decodesig")
    /\ UNCHANGED <<now, codec, calls, op, header, claims, secret, jws, b64vals, signer,
                   computedSignature, token, origin>>

\* variant: the signature segment is read up to its first "."
UDecodeSigUpToDot ==
    /\ pc = "u_decodesig"
    /\ \E d \in {DecodeJWTBase64(SplitN3(b64vals.signature)[1])} :
        /\ expectedSignature' = d.bytes
        /\ err' = IF d.ok THEN Nil ELSE ErrInvalidToken
        /\ pc' = IF d.ok THEN "u_header" ELSE "done"
    /\ ran' = Append(ran, "decodesig")
    /\ UNCHANGED <<now, codec, calls, op, header, claims, secret, jws, b64vals, signer,
                   computedSignature, token, origin>>

\* expectedSignature, err := encoding.DecodeJWTBase64(b64vals.signature)
UDecodeSig ==
    /\ pc = "u_decodesig"
    /\ \E d \in {DecodeJWTBase64(b64vals.signature)} :
        /\ expectedSignature' = d.bytes
        /\ err' = IF d.ok THEN Nil ELSE ErrInvalidToken
        /\ pc' = IF d.ok THEN "u_header" ELSE "done"
    /\ ran' = Append(ran, "decodesig")
    /\ UNCHANGED <<now, codec, calls, op, header, claims, secret, jws, b64vals, signer,
                   computedSignature, token, origin>>

\* Header.unmarshal: [err, value] outcomes of decoding segment seg into h
HeaderUnmarshal(seg, h) ==
    LET d == DecodeJWTBase64(seg) IN
    IF ~d.ok THEN {[err |-> ErrBase64, value |-> h]}
    ELSE DecodeJSONHeader(d.bytes, h, Headers)

\* t.header.unmarshal(b64vals.header)
UHeader ==
    /\ pc = "u_header"
    /\ \E out \in HeaderUnmarshal(b64vals.header, header) :
        /\ header' = out.value
        /\ err' = out.err
        /\ pc' = IF out.err # Nil THEN "done" ELSE "u_signer"
    /\ ran' = Append(ran, "header")
    /\ UNCHANGED <<now, codec, calls, op, claims, secret, jws, b64vals, signer,
                   expectedSignature, computedSignature, token, origin>>

\* variant: the payload is decoded right after the algorithm is resolved
USignerSkipsVerification ==
    /\ pc = "u_signer"
    /\ LET sg == HeaderSigner(header) IN
        /\ signer' = sg.hash
        /\ err' = sg.err
        /\ pc' = IF sg.err # Nil THEN "done" ELSE "u_payload"
    /\ ran' = Append(ran, "signer")
    /\ UNCHANGED <<now, codec, calls, op, header, claims, secret, jws, b64vals,
                   expectedSignature, computedSignature, token, origin>>

\* signer, err := t.header.signer(secret)
USigner ==
    /\ pc = "u_signer"
    /\ LET sg == HeaderSigner(header) IN
        /\ signer' = sg.hash
        /\ err' = sg.err
        /\ pc' = IF sg.err # Nil THEN "done" ELSE "u_compare"
    /\ ran' = Append(ran, "signer")
    /\ UNCHANGED <<now, codec, calls, op, header, claims, secret, jws, b64vals,
                   expectedSignature, computedSignature, token, origin>>

\* variant: the two signatures are compared by length only
UCompareLengths ==
    /\ pc = "u_compare"
    /\ \E sum \in {HMACSum(signer, secret, signingMessage(b64vals))} :
          /\ computedSignature' = sum
          /\ err' = IF Len(sum) = Len(expectedSignature) THEN Nil ELSE ErrSignatureMismatch
          /\ pc' = IF Len(sum) = Len(expectedSignature) THEN "u_payload" ELSE "done"
    /\ ran' = Append(ran, "compare")
    /\ UNCHANGED <<now, codec, calls, op, header, claims, secret, jws, b64vals, signer,
                   expectedSignature, token, origin>>

\* variant: only as many bytes as the presented signature has are compared
UComparePresentedBytes ==
    /\ pc = "u_compare"
    /\ \E sum \in {HMACSum(signer, secret, signingMessage(b64vals))} :
        \E equal \in {/\ Len(expectedSignature) <= Len(sum)
                       /\ SubSeq(sum, 1, Len(expectedSignature)) = expectedSignature} :
          /\ computedSignature' = sum
          /\ err' = IF equal THEN Nil ELSE ErrSignatureMismatch
          /\ pc' = IF equal THEN "u_payload" ELSE "done"
    /\ ran' = Append(ran, "compare")
    /\ UNCHANGED <<now, codec, calls, op, header, claims, secret, jws, b64vals, signer,
                   expectedSignature, token, origin>>

\* variant: the keyed hash is recomputed over the decoded header encoded anew
UCompareReencodesHeader ==
    /\ pc = "u_compare"
    /\ \E sum \in {HMACSum(signer, secret,
                            HeaderMarshal(header) \o <<Dot>> \o b64vals.payload)} :
          /\ computedSignature' = sum
          /\ err' = IF CryptoEqual(sum, expectedSignature) THEN Nil ELSE ErrSignatureMismatch
          /\ pc' = IF CryptoEqual(sum, expectedSignature) THEN "u_payload" ELSE "done"
    /\ ran' = Append(ran, "compare")
    /\ UNCHANGED <<now, codec, calls, op, header, claims, secret, jws, b64vals, signer,
                   expectedSignature, token, origin>>

\* computedSignature := signer.Sum(nil) over the received segments;
\* crypto.Equal(computedSignature, expectedSignature)
UCompare ==
    /\ pc = "u_compare"
    /\ \E sum \in {HMACSum(signer, secret, signingMessage(b64vals))} :
          /\ computedSignature' = sum
          /\ err' = IF CryptoEqual(sum, expectedSignature) THEN Nil ELSE ErrSignatureMismatch
          /\ pc' = IF CryptoEqual(sum, expectedSignature) THEN "u_payload" ELSE "done"
    /\ ran' = Append(ran, "compare")
    /\ UNCHANGED <<now, codec, calls, op, header, claims, secret, jws, b64vals, signer,
                   expectedSignature, token, origin>>

\* the claims values an unfollowed payload text may decode to
ClaimsValues == ClaimsIn \ {ZeroClaims("nil")}

\* variant: the target is not written
PayloadUnmarshalKeepsTarget(seg, c) == {[err |-> Nil, value |-> c]}

\* payload.unmarshal: [err, value] outcomes of decoding segment seg into c
PayloadUnmarshal(seg, c) ==
    LET d == DecodeJWTBase64(seg) IN
    IF ~d.ok THEN {[err |-> ErrBase64, value |-> c]}
    ELSE DecodeJSONClaims(d.bytes, c, ClaimsValues)

\* variant: every target is time-validated after the decode
UPayloadValidatesAll ==
    /\ pc = "u_payload"
    /\ \E out \in PayloadUnmarshal(b64vals.payload, claims) :
        \E e \in (IF out.err # Nil THEN {out.err} ELSE ClaimsValid(out.value, now)) :
            /\ claims' = out.value
            /\ err' = e
            /\ pc' = IF e # Nil THEN "done" ELSE "u_type"
    /\ ran' = Append(ran, "payload")
    /\ UNCHANGED <<now, codec, calls, op, header, secret, jws, b64vals, signer,
                   expectedSignature, computedSignature, token, origin>>

\* return t.payload.unmarshal(b64vals.payload)
UPayload ==
    /\ pc = "u_payload"
    /\ \E out \in PayloadUnmarshal(b64vals.payload, claims) :
        /\ claims' = out.value
        /\ err' = out.err
        /\ pc' = IF out.err # Nil THEN "done" ELSE "u_type"
    /\ ran' = Append(ran, "payload")
    /\ UNCHANGED <<now, codec, calls, op, header, secret, jws, b64vals, signer,
                   expectedSignature, computedSignature, token, origin>>

\* the type check Unmarshal makes after token.unmarshal returned nil
TypeCheck(h) == IF h.Typ # JWT THEN UnsupportedTypeError(h.Typ) ELSE Nil

\* variant: a refused type puts the target back as it was passed
UTypeRollsBack ==
    /\ pc = "u_type"
    /\ err' = TypeCheck(header)
    /\ claims' = IF TypeCheck(header) # Nil THEN origin.target ELSE claims
    /\ pc' = "done"
    /\ ran' = Append(ran, "type")
    /\ UNCHANGED <<now, codec, calls, op, header, secret, jws, b64vals, signer,
                   expectedSignature, computedSignature, token, origin>>

\* if t.header.Typ != JWT { return UnsupportedTypeError{t.header.Typ} }; return nil
UType ==
    /\ pc = "u_type"
    /\ err' = TypeCheck(header)
    /\ pc' = "done"
    /\ ran' = Append(ran, "type")
    /\ UNCHANGED <<now, codec, calls, op, header, claims, secret, jws, b64vals, signer,
                   expectedSignature, computedSignature, token, origin>>

(***************************************************************************)
(* Concurrent calls                                                        *)
(*                                                                         *)
(* Marshal and Unmarshal allocate their token and keep everything else in  *)
(* local variables, so a call is a context of its own; CallStep is the     *)
(* next statement of token.marshal / token.unmarshal / Unmarshal on it.    *)
(***************************************************************************)
\* the contexts one statement leads to from context c
CallStep(c) ==
    IF c.pc = "m_signer" THEN
        LET sg == HeaderSigner(c.header) IN
        {[c EXCEPT !.signer = sg.hash, !.err = sg.err,
                   !.pc = IF sg.err # Nil THEN "done" ELSE "m_header"]}
    ELSE IF c.pc = "m_header" THEN
        {[c EXCEPT !.b64vals.header = HeaderMarshal(c.header), !.pc = "m_payload"]}
    ELSE IF c.pc = "m_payload" THEN
        {[c EXCEPT !.b64vals.payload = PayloadMarshal(c.claims), !.pc = "m_sign"]}
    ELSE IF c.pc = "m_sign" THEN
        LET sum == HMACSum(c.signer, c.secret, signingMessage(c.b64vals)) IN
        {[c EXCEPT !.computedSignature = sum,
                   !.b64vals.signature = EncodeJWTBase64(sum), !.pc = "m_join"]}
    ELSE IF c.pc = "m_join" THEN
        {[c EXCEPT !.token = b64valuesMarshal(c.b64vals), !.err = Nil, !.pc = "done"]}
    ELSE IF c.pc = "u_split" THEN
        LET r == b64valuesUnmarshal(c.jws) IN
        {[c EXCEPT !.b64vals = r.v, !.err = r.err,
                   !.pc = IF r.err # Nil THEN "done" ELSE "u_decodesig"]}
    ELSE IF c.pc = "u_decodesig" THEN
        LET d == DecodeJWTBase64(c.b64vals.signature) IN
        {[c EXCEPT !.expectedSignature = d.bytes,
                   !.err = IF d.ok THEN Nil ELSE ErrInvalidToken,
                   !.pc = IF d.ok THEN "u_header" ELSE "done"]}
    ELSE IF c.pc = "u_header" THEN
        {[c EXCEPT !.header = out.value, !.err = out.err,
                   !.pc = IF out.err # Nil THEN "done" ELSE "u_signer"] :
            out \in HeaderUnmarshal(c.b64vals.header, c.header)}
    ELSE IF c.pc = "u_signer" THEN
        LET sg == HeaderSigner(c.header) IN
        {[c EXCEPT !.signer = sg.hash, !.err = sg.err,
                   !.pc = IF sg.err # Nil THEN "done" ELSE "u_compare"]}
    ELSE IF c.pc = "u_compare" THEN
        LET sum == HMACSum(c.signer, c.secret, signingMessage(c.b64vals))
            equal == CryptoEqual(sum, c.expectedSignature)
        IN {[c EXCEPT !.computedSignature = sum,
                      !.err = IF equal THEN Nil ELSE ErrSignatureMismatch,
                      !.pc = IF equal THEN "u_payload" ELSE "done"]}
    ELSE IF c.pc = "u_payload" THEN
        {[c EXCEPT !.claims = out.value, !.err = out.err,
                   !.pc = IF out.err # Nil THEN "done" ELSE "u_type"] :
            out \in PayloadUnmarshal(c.b64vals.payload, c.claims)}
    ELSE IF c.pc = "u_type" THEN
        {[c EXCEPT !.err = TypeCheck(c.header), !.pc = "done"]}
    ELSE {}

\* the contexts a call that starts in c may end in when it runs alone
RECURSIVE Finals(_)
Finals(c) == IF c.pc = "done" THEN {c} ELSE UNION {Finals(d) : d \in CallStep(c)}

MarshalStart(h, c, s) ==
    [IdleCall EXCEPT !.op = "Marshal", !.pc = "m_signer",
                     !.header = h, !.claims = c, !.secret = s]

UnmarshalStart(text, target, s) ==
    [IdleCall EXCEPT !.op = "Unmarshal", !.pc = "u_split",
                     !.jws = text, !.claims = target, !.secret = s]

\* the calls concurrent callers make: Marshal with two algorithms, and
\* Unmarshal of the two tokens with the right secret and with another one
ConcStarts ==
    LET h256 == [Alg |-> HS256, Typ |-> JWT]
        h512 == [Alg |-> HS512, Typ |-> JWT]
        t256 == TokenMarshal(h256, SubUClaims, SecretK).token
        t512 == TokenMarshal(h512, SubUClaims, SecretK).token
    IN { MarshalStart(h256, SubUClaims, SecretK),
         MarshalStart(h512, SubUClaims, SecretK),
         UnmarshalStart(t256, ZeroClaims("Claims"), SecretK),
         UnmarshalStart(t512, ZeroClaims("Claims"), SecretK),
         UnmarshalStart(t256, ZeroClaims("Claims"), <<>>) }

\* caller p enters Marshal or Unmarshal
ConcBegin(p) ==
    /\ calls[p].ctx.pc = "idle"
    /\ \E c \in ConcStarts : calls' = [calls EXCEPT ![p] = [start |-> c, ctx |-> c]]
    /\ UNCHANGED <<now, codec, op, pc, header, claims, secret, jws, b64vals, signer,
                   expectedSignature, computedSignature, token, err, origin, ran>>

\* variant: the keyed hash is one object shared by all calls, so a call signs
\* with the algorithm another call resolved last
ConcStepSharedSigner(p) ==
    /\ calls[p].ctx.pc \notin {"idle", "done"}
    /\ LET others == {q \in Procs \ {p} : calls[q].ctx.signer # "none"}
           c == calls[p].ctx
           seen == IF c.pc \in {"m_sign", "u_compare"} /\ others # {}
                   THEN [c EXCEPT !.signer = calls[CHOOSE q \in others : TRUE].ctx.signer]
                   ELSE c
       IN \E d \in CallStep(seen) : calls' = [calls EXCEPT ![p].ctx = d]
    /\ UNCHANGED <<now, codec, op, pc, header, claims, secret, jws, b64vals, signer,
                   expectedSignature, computedSignature, token, err, origin, ran>>

\* caller p executes its next statement; the other contexts are not touched
ConcStep(p) ==
    /\ calls[p].ctx.pc \notin {"idle", "done"}
    /\ \E d \in CallStep(calls[p].ctx) : calls' = [calls EXCEPT ![p].ctx = d]
    /\ UNCHANGED <<now, codec, op, pc, header, claims, secret, jws, b64vals, signer,
                   expectedSignature, computedSignature, token, err, origin, ran>>

\* the call of caller p returns
ConcReturn(p) ==
    /\ calls[p].ctx.pc = "done"
    /\ calls' = [calls EXCEPT ![p] = NoCall]
    /\ UNCHANGED <<now, codec, op, pc, header, claims, secret, jws, b64vals, signer,
                   expectedSignature, computedSignature, token, err, origin, ran>>

(***************************************************************************)
(* Direct uses of the base64url codec                                      *)
(***************************************************************************)
\* longest byte sequence and longest text given to the codec
MaxCodecLen == 3

\* sequences over S of length at most n
SeqsUpTo(S, n) == UNION {{<<>> \o f : f \in [1..k -> S]} : k \in 0..n}

\* byte values: zero, "h", and the two that fill the last two alphabet places
CodecByteValues == {0, 104, 251, 255}

\* characters: "A", "8", "-", "_", "=", "+", "/", "@", line feed, carriage return
CodecChars == {65, 56, 45, 95, 61, 43, 47, 64, 10, 13}

CodecBytes == SeqsUpTo(CodecByteValues, MaxCodecLen)

CodecTexts == SeqsUpTo(CodecChars, MaxCodecLen)

\* encoding.EncodeJWTBase64(b)
EncodeCall ==
    /\ pc = "idle" /\ codec.fn = "none"
    /\ \E b \in CodecBytes :
        codec' = [fn |-> "encode", input |-> b, text |-> EncodeJWTBase64(b),
                  ok |-> TRUE, output |-> <<>>]
    /\ UNCHANGED <<now, calls, op, pc, header, claims, secret, jws, b64vals, signer,
                   expectedSignature, computedSignature, token, err, origin, ran>>

\* encoding.DecodeJWTBase64 applied to the text just encoded
DecodeEncoded ==
    /\ codec.fn = "encode"
    /\ \E d \in {DecodeJWTBase64(codec.text)} :
        codec' = [codec EXCEPT !.fn = "roundtrip", !.ok = d.ok, !.output = d.bytes]
    /\ UNCHANGED <<now, calls, op, pc, header, claims, secret, jws, b64vals, signer,
                   expectedSignature, computedSignature, token, err, origin, ran>>

\* encoding.DecodeJWTBase64(text)
DecodeCall ==
    /\ pc = "idle" /\ codec.fn = "none"
    /\ \E text \in CodecTexts : \E d \in {DecodeJWTBase64(text)} :
        codec' = [fn |-> "decode", input |-> <<>>, text |-> text,
                  ok |-> d.ok, output |-> d.bytes]
    /\ UNCHANGED <<now, calls, op, pc, header, claims, secret, jws, b64vals, signer,
                   expectedSignature, computedSignature, token, err, origin, ran>>

\* the result is handed back
CodecReturn ==
    /\ codec.fn \in {"roundtrip", "decode"}
    /\ codec' = NoCodec
    /\ UNCHANGED <<now, calls, op, pc, header, claims, secret, jws, b64vals, signer,
                   expectedSignature, computedSignature, token, err, origin, ran>>

(***************************************************************************)
(* Direct uses of b64values (split and join of the compact form)           *)
(***************************************************************************)
MaxSegLen == 2
MaxTextLen == 5

\* the characters of the texts: a letter and the separator
SegChars == {97, Dot}

SegTexts == SeqsUpTo(SegChars, MaxSegLen)

SplitTexts == SeqsUpTo(SegChars, MaxTextLen)

\* v := b64values{}; err := v.unmarshal(text)
SplitCall ==
    /\ pc = "idle"
    /\ \E text \in SplitTexts :
        LET r == b64valuesUnmarshal(text) IN
        /\ jws' = text /\ b64vals' = r.v /\ err' = r.err
    /\ op' = "b64values.unmarshal" /\ pc' = "done"
    /\ ran' = <<"split">>
    /\ UNCHANGED <<now, codec, calls, header, claims, secret, signer, expectedSignature,
                   computedSignature, token, origin>>

\* v := b64values{h, p, s}; text := v.marshal()
JoinCall ==
    /\ pc = "idle"
    /\ \E h \in SegTexts, p \in SegTexts, s \in SegTexts :
        LET v == [header |-> h, payload |-> p, signature |-> s] IN
        /\ b64vals' = v /\ token' = b64valuesMarshal(v)
    /\ op' = "b64values.marshal" /\ pc' = "joined"
    /\ ran' = <<"join">>
    /\ UNCHANGED <<now, codec, calls, header, claims, secret, jws, signer,
                   expectedSignature, computedSignature, err, origin>>

\* the text v.marshal() returned is given to unmarshal
SplitJoined ==
    /\ pc = "joined"
    /\ LET r == b64valuesUnmarshal(token) IN
        /\ jws' = token /\ b64vals' = r.v /\ err' = r.err
    /\ pc' = "done"
    /\ ran' = Append(ran, "split")
    /\ UNCHANGED <<now, codec, calls, op, header, claims, secret, signer,
                   expectedSignature, computedSignature, token, origin>>

Next ==
    \/ Return
    \/ ValidCall
    \/ MarshalBegin
    \/ MSigner
    \/ MHeader
    \/ MPayload
    \/ MSign
    \/ MJoin
    \/ UnmarshalMinted
    \/ UnmarshalTampered
    \/ UnmarshalCrafted
    \/ UnmarshalRaw
    \/ USplit
    \/ UDecodeSig
    \/ UHeader
    \/ USigner
    \/ UCompare
    \/ UPayload
    \/ UType

\* the calls of the library at a fixed time
Spec == Init /\ [][Next]_vars

\* Claims.Valid as the clock advances
NextClock ==
    \/ Tick
    \/ ValidCall
    \/ Return

SpecClock == Init /\ [][NextClock]_vars

\* the base64url codec used on its own
NextCodec ==
    \/ EncodeCall
    \/ DecodeEncoded
    \/ DecodeCall
    \/ CodecReturn

SpecCodec == Init /\ [][NextCodec]_vars

\* split and join used on their own
NextSegments ==
    \/ SplitCall
    \/ JoinCall
    \/ SplitJoined
    \/ Return

SpecSegments == Init /\ [][NextSegments]_vars

\* Marshal and Unmarshal called by concurrent callers, their statements interleaved
NextConc ==
    \E p \in Procs :
        \/ ConcBegin(p)
        \/ ConcStep(p)
        \/ ConcReturn(p)

SpecConc == Init /\ [][NextConc]_vars

(***************************************************************************)
(* Properties                                                              *)
(***************************************************************************)
UnmarshalDone == op = "Unmarshal" /\ pc = "done"

MarshalDone == op = "Marshal" /\ pc = "done"

\* the call has executed the step
Ran(step) == \E i \in DOMAIN ran : ran[i] = step

\* number of "." characters of a text
DotCount(s) == Cardinality({i \in DOMAIN s : s[i] = Dot})

HSAlgs == {HS256, HS384, HS512}

TimeErrors == {ErrTokenExpired, ErrTokenNotValidYet, ErrTokenUsedBeforeIssued}

\* the comparison of the call has been made and the signatures were equal
Verified == Ran("compare") /\ CryptoEqual(computedSignature, expectedSignature)

\* the tampered position lies in the header segment
TamperedHeader == origin.pos <= Len(HeaderMarshal(origin.header))

\* C1: round trip.  A token that Marshal made for a header with alg HS256,
\* HS384 or HS512 and typ "JWT", claims that pass time validation and any
\* secret, given to Unmarshal with the same secret and a fresh target of the
\* claims' shape, yields no error and leaves the target equal to the claims.
RoundTrip ==
    (/\ UnmarshalDone /\ origin.kind = "minted" /\ secret = origin.secret
     /\ origin.header.Alg \in HSAlgs /\ origin.header.Typ = JWT
     /\ origin.claims.kind # "nil"
     /\ ClaimsValid(origin.claims, now) = {Nil}
     /\ origin.target = ZeroClaims(origin.claims.kind))
    => (err = Nil /\ claims = origin.claims)

\* a token of HS512 made with the long secret and all seven claims has come back
RoundTripWitness ==
    /\ UnmarshalDone /\ origin.kind = "minted"
    /\ secret = LongSecret /\ origin.secret = LongSecret
    /\ origin.header = [Alg |-> HS512, Typ |-> JWT]
    /\ origin.claims = MkClaims("Claims", IssMyApp, SubU, AudApi, Future, Past, Past, JtiId1)
    /\ origin.target = ZeroClaims("Claims")
    /\ err = Nil /\ claims = origin.claims

\* C2 as stated: a token made with secret s, given to Unmarshal with any
\* secret different from s, yields ErrSignatureMismatch.
WrongSecretRejected ==
    (UnmarshalDone /\ origin.kind = "minted" /\ secret # origin.secret)
    => err = ErrSignatureMismatch

\* C2, amended: a token made with secret s, given to Unmarshal with a secret
\* whose HMAC key block (the key, hashed when longer than the hash block, then
\* padded with zero bytes) differs from that of s, yields ErrSignatureMismatch
\* and leaves the target alone; a different secret with the same key block
\* passes the signature comparison.
WrongKeyRejected ==
    (UnmarshalDone /\ origin.kind = "minted" /\ secret # origin.secret)
    => LET hash == HeaderSigner(origin.header).hash IN
       IF HMACKeyBlock(hash, secret) # HMACKeyBlock(hash, origin.secret)
       THEN err = ErrSignatureMismatch /\ claims = origin.target
       ELSE Verified /\ err # ErrSignatureMismatch

\* a token made with "k" was refused under the long secret
WrongKeyWitness ==
    /\ UnmarshalDone /\ origin.kind = "minted"
    /\ origin.secret = SecretK /\ secret = LongSecret
    /\ origin.header.Alg = HS384
    /\ err = ErrSignatureMismatch

\* C3 as stated: a token with one byte of its header or payload segment
\* changed, given to Unmarshal with the original secret, yields
\* ErrSignatureMismatch.
TamperYieldsMismatch ==
    (UnmarshalDone /\ origin.kind = "tampered") => err = ErrSignatureMismatch

\* C3, amended: such a token is never accepted.  A byte changed into "."
\* yields ErrInvalidToken; any other change of a payload byte yields
\* ErrSignatureMismatch; any other change of a header byte yields
\* ErrSignatureMismatch when the changed header still decodes to a supported
\* algorithm, and the header's decode error or UnsupportedAlgorithmError
\* otherwise.
TamperNeverAccepted ==
    (UnmarshalDone /\ origin.kind = "tampered")
    => /\ err # Nil
       /\ claims = origin.target
       /\ origin.ch = Dot => err = ErrInvalidToken
       /\ (origin.ch # Dot /\ ~TamperedHeader) => err = ErrSignatureMismatch
       /\ (origin.ch # Dot /\ TamperedHeader)
            => \/ err \in {ErrSignatureMismatch, ErrBase64, ErrJSON}
               \/ err.kind = "UnsupportedAlgorithmError"
       /\ Ran("compare") => err = ErrSignatureMismatch
       /\ (Ran("signer") /\ ~Ran("compare")) => err = UnsupportedAlgorithmError(header.Alg)

\* a changed payload byte was detected by the signature comparison
TamperWitness ==
    /\ UnmarshalDone /\ origin.kind = "tampered"
    /\ ~TamperedHeader /\ origin.ch = 65
    /\ origin.header.Alg = HS512
    /\ err = ErrSignatureMismatch

\* C4 as stated: for a validly signed token whose payload decoded, a header
\* typ of "JWT" or "" yields no error and any other typ yields
\* UnsupportedTypeError carrying it; Marshal accepts any typ.
TypeCheckAcceptsEmpty ==
    /\ (UnmarshalDone /\ Ran("type"))
        => IF header.Typ \in {JWT, <<>>} THEN err = Nil
           ELSE err = UnsupportedTypeError(header.Typ)
    /\ (MarshalDone /\ HeaderSigner(header).err = Nil) => err = Nil

\* a validly signed token with an empty typ was refused
EmptyTypRefused ==
    /\ UnmarshalDone /\ origin.kind = "minted" /\ secret = origin.secret
    /\ origin.header = [Alg |-> HS256, Typ |-> <<>>]
    /\ Ran("type") /\ err = UnsupportedTypeError(<<>>)

\* C5 as stated: Unmarshal of a validly signed token into a Claims target
\* returns ErrTokenExpired when exp is set and exp <= now, ErrTokenNotValidYet
\* when nbf is set and nbf > now, ErrTokenUsedBeforeIssued when iat is set and
\* iat > now, and nil only when none of the three is violated.
TimeValidationThroughUnmarshal ==
    (UnmarshalDone /\ Verified /\ Ran("payload") /\ claims.kind = "Claims"
     /\ err \notin {ErrBase64, ErrJSON})
    => IF ValidFailures(claims, now) = {} THEN err \notin TimeErrors
       ELSE err \in ValidFailures(claims, now)

\* a token that expires at this very second was accepted
ExpiredTokenAccepted ==
    /\ UnmarshalDone /\ origin.kind = "minted" /\ secret = origin.secret
    /\ origin.target = ZeroClaims("Claims")
    /\ claims.exp = now /\ err = Nil

\* C6: boundaries of Claims.Valid at the clock's time now.  With the other
\* two fields absent: exp = now yields ErrTokenExpired and exp = now + 1 nil;
\* nbf = now yields nil and nbf = now + 1 ErrTokenNotValidYet; iat = now
\* yields nil and iat = now + 1 ErrTokenUsedBeforeIssued.  A field that is
\* zero never raises its error, and the all-zero Claims value is valid.
ValidBoundaries ==
    (op = "Valid" /\ pc = "done")
    => /\ (claims.exp = now /\ claims.nbf = 0 /\ claims.iat = 0) => err = ErrTokenExpired
       /\ (claims.exp = now + 1 /\ claims.nbf = 0 /\ claims.iat = 0) => err = Nil
       /\ (claims.nbf = now /\ claims.exp = 0 /\ claims.iat = 0) => err = Nil
       /\ (claims.nbf = now + 1 /\ claims.exp = 0 /\ claims.iat = 0) => err = ErrTokenNotValidYet
       /\ (claims.iat = now /\ claims.exp = 0 /\ claims.nbf = 0) => err = Nil
       /\ (claims.iat = now + 1 /\ claims.exp = 0 /\ claims.nbf = 0)
            => err = ErrTokenUsedBeforeIssued
       /\ claims.exp = now => err # Nil
       /\ claims.exp = 0 => err # ErrTokenExpired
       /\ claims.nbf = 0 => err # ErrTokenNotValidYet
       /\ claims.iat = 0 => err # ErrTokenUsedBeforeIssued
       /\ claims = ZeroClaims("Claims") => err = Nil

\* after the clock advanced, claims expiring at that second were refused
ValidBoundariesWitness ==
    /\ op = "Valid" /\ pc = "done" /\ now = Epoch + 1
    /\ claims.exp = now /\ claims.nbf = 0 /\ claims.iat = 0
    /\ err = ErrTokenExpired

\* the header segment of the call decodes, without error, to an alg outside S
DecodesToAlgOutside(S) ==
    \A o \in HeaderUnmarshal(b64vals.header, ZeroHeader) :
        o.err = Nil /\ o.value.Alg \notin S

\* C7 as stated: Marshal with an alg other than HS256, HS384, HS512 returns
\* UnsupportedAlgorithmError carrying the alg and an empty token; Unmarshal of
\* every three-segment token whose header decodes to such an alg returns
\* UnsupportedAlgorithmError.
UnsupportedAlgRejected ==
    /\ (MarshalDone /\ header.Alg \notin HSAlgs)
        => (err = UnsupportedAlgorithmError(header.Alg) /\ token = <<>>)
    /\ (UnmarshalDone /\ DotCount(jws) >= 2 /\ DecodesToAlgOutside(HSAlgs))
        => err.kind = "UnsupportedAlgorithmError"

\* the upper- and lower-case variants of the three names that the domain holds
HSAlgVariants == {a \in Algs : ToUpper(a) \in HSAlgs}

\* C7, amended: Marshal with an alg that is no upper/lower-case variant of
\* HS256, HS384, HS512 returns UnsupportedAlgorithmError carrying the alg as
\* supplied and an empty token; Unmarshal of a three-segment token whose
\* signature segment is valid unpadded base64url and whose header decodes to
\* such an alg returns UnsupportedAlgorithmError carrying that alg, without
\* comparing signatures; with a signature segment that is not valid base64url
\* it returns ErrInvalidToken.
UnsupportedAlgRejectedAfterSignatureDecode ==
    /\ (MarshalDone /\ header.Alg \notin HSAlgVariants)
        => (err = UnsupportedAlgorithmError(header.Alg) /\ token = <<>>)
    /\ (UnmarshalDone /\ DotCount(jws) >= 2 /\ DecodesToAlgOutside(HSAlgVariants))
        => IF DecodeJWTBase64(b64vals.signature).ok
           THEN /\ err = UnsupportedAlgorithmError(header.Alg)
                /\ ~Ran("compare")
                /\ claims = origin.target
           ELSE err = ErrInvalidToken

\* a token of alg "none" carrying a valid HMAC-SHA256 signature was refused
UnsupportedAlgWitness ==
    /\ UnmarshalDone /\ origin.kind = "crafted"
    /\ header.Alg = AlgNone
    /\ b64vals.signature
         = EncodeJWTBase64(HMACSum("SHA256", secret, signingMessage(b64vals)))
    /\ err = UnsupportedAlgorithmError(AlgNone)

\* C8: Unmarshal of a text with fewer than two "." returns ErrInvalidToken
\* right after the split, whatever the secret and the target, which it
\* leaves alone.
FewerThanTwoDotsRejected ==
    (UnmarshalDone /\ DotCount(jws) < 2)
    => (err = ErrInvalidToken /\ ran = <<"split">> /\ claims = origin.target)

\* a token cut before its second "." was refused, with the long secret and a map target
FewerThanTwoDotsWitness ==
    /\ UnmarshalDone /\ DotCount(jws) = 1 /\ Len(jws) > Len(TextHeaderPayload)
    /\ secret = LongSecret /\ claims = ZeroClaims("Map")
    /\ err = ErrInvalidToken

\* C9: verify before decode.  In every Unmarshal call the payload step runs
\* only after a signature comparison that succeeded, and the target is
\* untouched until then; a call whose comparison fails returns
\* ErrSignatureMismatch without running the payload step, whatever the
\* payload segment is, and no call returns a time-claim error without a
\* successful comparison.
VerifyBeforeDecode ==
    op = "Unmarshal"
    => /\ Ran("payload") => Verified
       /\ ~Verified => claims = origin.target
       /\ (pc = "done" /\ Ran("compare") /\ ~Verified)
            => (err = ErrSignatureMismatch /\ ran[Len(ran)] = "compare")
       /\ (pc = "done" /\ ~Verified) => err \notin TimeErrors
       /\ (pc = "done" /\ ~Verified /\ err \in {ErrBase64, ErrJSON})
            => ran[Len(ran)] = "header"

\* a token with an undecodable payload and a signature that does not match
\* was refused for its signature
VerifyBeforeDecodeWitness ==
    /\ UnmarshalDone /\ origin.kind = "crafted"
    /\ b64vals.payload = TextBadPayload
    /\ Ran("compare") /\ ~Verified
    /\ err = ErrSignatureMismatch

\* C10: when the third segment of a three-segment text is not valid unpadded
\* base64url, Unmarshal returns ErrInvalidToken, not the decoder's error,
\* right after the signature decode step, whatever the header and payload
\* segments are.
SignatureSegmentNarrowed ==
    (UnmarshalDone /\ DotCount(jws) >= 2 /\ ~DecodeJWTBase64(b64vals.signature).ok)
    => (err = ErrInvalidToken /\ ran = <<"split", "decodesig">>)

\* a text whose three segments are all undecodable was refused as an invalid token
SignatureSegmentWitness ==
    /\ UnmarshalDone
    /\ b64vals.header = TextBadHeader /\ b64vals.payload = TextBadPayload
    /\ b64vals.signature = TextBadSig
    /\ err = ErrInvalidToken

\* the characters of the URL-safe alphabet: letters, digits, "-" and "_"
IsB64UrlChar(c) == B64Index(c) # -1

\* C11: wire format.  Every token Marshal returns without error holds exactly
\* two ".", its three segments are non-empty, and every other character is a
\* letter, a digit, "-" or "_".
WireFormat ==
    (MarshalDone /\ err = Nil)
    => /\ DotCount(token) = 2
       /\ LET f == SplitN3(token) IN
            /\ Len(f) = 3
            /\ \A k \in 1..3 : Len(f[k]) > 0 /\ \A i \in DOMAIN f[k] : IsB64UrlChar(f[k][i])
       /\ \A i \in DOMAIN token : token[i] = Dot \/ IsB64UrlChar(token[i])

\* Marshal returned a token for nil claims and the empty secret
WireFormatWitness ==
    /\ MarshalDone /\ err = Nil
    /\ origin.claims = ZeroClaims("nil") /\ secret = <<>>
    /\ DotCount(token) = 2 /\ Len(token) > Len(TextHeaderPayload)

\* the hash each algorithm name stands for
PrimitiveOf(name) ==
    IF name = "HS256" THEN "SHA256" ELSE IF name = "HS384" THEN "SHA384" ELSE "SHA512"

\* the value a package gives to the constant called name
ConstantOf(package, name) ==
    IF package = "pkg/jwt"
    THEN (IF name = "HS256" THEN HS256 ELSE IF name = "HS384" THEN HS384 ELSE HS512)
    ELSE IF package = "gotoken"
    THEN (IF name = "HS256" THEN GotokenHS256
          ELSE IF name = "HS384" THEN GotokenHS384 ELSE GotokenHS512)
    ELSE (IF name = "HS256" THEN AliasHS256
          ELSE IF name = "HS384" THEN AliasHS384 ELSE AliasHS512)

Packages == {"pkg/jwt", "gotoken", "jwt"}

AlgNames == {"HS256", "HS384", "HS512"}

\* C12 as stated: in every package that exports HS256, HS384 and HS512, the
\* three constants are pairwise different, and Marshal with a header whose alg
\* is the package's constant signs with the HMAC of that name, the signature
\* being 32, 48 and 64 bytes long.
PerAlgorithmPrimitive ==
    \A p \in Packages :
        /\ \A n1 \in AlgNames, n2 \in AlgNames :
              n1 # n2 => ConstantOf(p, n1) # ConstantOf(p, n2)
        /\ \A n \in AlgNames :
              (MarshalDone /\ err = Nil /\ header.Alg = ConstantOf(p, n))
              => /\ signer = PrimitiveOf(n)
                 /\ Len(computedSignature) = HashSize(PrimitiveOf(n))
                 /\ DecodeJWTBase64(b64vals.signature).bytes = computedSignature

\* Marshal with the re-exporting package's HS512 signed with HMAC-SHA256
AliasCollapsed ==
    /\ MarshalDone /\ err = Nil
    /\ header.Alg = AliasHS512
    /\ signer = "SHA256" /\ Len(computedSignature) = 32

\* C13: a validly signed token of typ "JWT" decoded into a target without
\* time validation (a plain struct, a map) yields no error and fills the
\* target with the token's claims, whatever exp, nbf and iat are.
NoTimeValidationWithoutCapability ==
    (/\ UnmarshalDone /\ origin.kind = "minted" /\ secret = origin.secret
     /\ origin.header.Typ = JWT
     /\ origin.claims.kind # "nil"
     /\ origin.target \in {ZeroClaims("Struct"), ZeroClaims("Map")})
    => (err = Nil /\ claims = [origin.claims EXCEPT !.kind = origin.target.kind])

\* a token that is not valid yet was decoded into a map
NoTimeValidationWitness ==
    /\ UnmarshalDone /\ origin.kind = "minted" /\ secret = origin.secret
    /\ origin.target = ZeroClaims("Map")
    /\ origin.claims.nbf > now
    /\ err = Nil /\ claims.nbf = origin.claims.nbf

\* C14: base64url round trip.  For every byte sequence B, decoding the
\* encoding of B yields B without error; the encoding holds none of "+", "/",
\* "=", has the unpadded length, and is empty for the empty sequence.
Base64RoundTrip ==
    /\ codec.fn \in {"encode", "roundtrip"}
        => /\ \A i \in DOMAIN codec.text : codec.text[i] \notin {43, 47, 61}
           /\ \A i \in DOMAIN codec.text : IsB64UrlChar(codec.text[i])
           /\ Len(codec.text) = (Len(codec.input) * 4 + 2) \div 3
           /\ codec.input = <<>> => codec.text = <<>>
    /\ codec.fn = "roundtrip" => (codec.ok /\ codec.output = codec.input)

\* the two bytes that encode to "-_8" came back from their encoding
Base64RoundTripWitness ==
    /\ codec.fn = "roundtrip"
    /\ codec.input = <<251, 255>> /\ codec.text = <<45, 95, 56>>
    /\ codec.ok /\ codec.output = <<251, 255>>

\* the text holds a character the decoder neither accepts nor skips
HasForeignChar(text, skipped) ==
    \E i \in DOMAIN text : ~IsB64UrlChar(text[i]) /\ text[i] \notin skipped

Ctx ==
    [op |-> op, pc |-> pc, header |-> header, claims |-> claims, secret |-> secret,
     jws |-> jws, b64vals |-> b64vals, signer |-> signer,
     expectedSignature |-> expectedSignature, computedSignature |-> computedSignature,
     token |-> token, err |-> err]

\* the statements of a call taken alone are those of CallStep
StepsAgree ==
    [][(op \in {"Marshal", "Unmarshal"} /\ pc # "done")
       => [op |-> op', pc |-> pc', header |-> header', claims |-> claims',
           secret |-> secret', jws |-> jws', b64vals |-> b64vals', signer |-> signer',
           expectedSignature |-> expectedSignature',
           computedSignature |-> computedSignature',
           token |-> token', err |-> err'] \in CallStep(Ctx)]_vars

ArgumentsKept ==
    (pc # "idle" /\ pc' # "idle")
        => /\ secret' = secret
           /\ jws' = jws
           /\ (op = "Marshal" => header' = header)

\* C17: determinism and statelessness.  Whatever calls came before it, a
\* finished Marshal returns the token and the error that are the function of
\* its header, claims and secret alone, so two calls with equal arguments
\* return the identical string; and no statement of Marshal or Unmarshal
\* changes the secret, the header passed to Marshal, or the token text
\* passed to Unmarshal.
MarshalIsFunction ==
    /\ [](MarshalDone =>
            LET r == TokenMarshal(origin.header, origin.claims, origin.secret)
            IN token = r.token /\ err = r.err)
    /\ [][ArgumentsKept]_vars

\* Marshal of an HS384 header with a secret longer than the hash block has
\* returned its three-segment token
MarshalIsFunctionWitness ==
    /\ MarshalDone /\ err = Nil
    /\ origin.header = [Alg |-> HS384, Typ |-> JWT]
    /\ origin.claims = SubUClaims /\ origin.secret = LongSecret
    /\ header = origin.header /\ secret = LongSecret
    /\ DotCount(token) = 2
    /\ token = TokenMarshal(origin.header, SubUClaims, LongSecret).token

\* the headers the header segment of a returned token decodes to
DecodedHeaders(tok) ==
    {out.value : out \in {o \in HeaderUnmarshal(b64valuesUnmarshal(tok).v.header, ZeroHeader) :
                             o.err = Nil}}

\* C18: default type on creation.  When Marshal is called with a header
\* whose Typ is empty and returns a token, the header segment of that token
\* decodes to a header whose typ is "JWT".
EmptyTypDefaultsToJWT ==
    (MarshalDone /\ err = Nil /\ origin.header.Typ = <<>>)
        => /\ DecodedHeaders(token) # {}
           /\ \A h \in DecodedHeaders(token) : h.Typ = JWT

\* Marshal of Header{Alg: "HS256"} has returned a token whose header segment
\* carries the empty typ
EmptyTypWritten ==
    /\ MarshalDone /\ err = Nil
    /\ origin.header = [Alg |-> HS256, Typ |-> <<>>]
    /\ DecodedHeaders(token) = {[Alg |-> HS256, Typ |-> <<>>]}

\* the number of byte comparisons of the signature check of the call
Comparisons(computed, expected) == Cardinality(CryptoEqualCompared(computed, expected))

\* signature b with the byte at position i changed
ChangedAt(b, i) == [b EXCEPT ![i] = (@ + 1) % 256]

\* the first position at which a and b, of equal length, differ; 0 if none
FirstMismatch(a, b) ==
    LET D == {i \in DOMAIN a : a[i] # b[i]} IN
    IF D = {} THEN 0 ELSE CHOOSE i \in D : \A j \in D : i <= j

UnmarshalSteps == <<"split", "decodesig", "header", "signer", "compare", "payload", "type">>

\* the kinds of error a step returns
StepErrorKinds(step) ==
    IF step \in {"split", "decodesig"} THEN {ErrInvalidToken.kind}
    ELSE IF step \in {"header", "payload"} THEN {ErrBase64.kind, ErrJSON.kind}
    ELSE IF step = "signer" THEN {UnsupportedAlgorithmError(<<>>).kind}
    ELSE IF step = "compare" THEN {ErrSignatureMismatch.kind}
    ELSE IF step = "type" THEN {UnsupportedTypeError(<<>>).kind}
    ELSE {}

\* the steps run in the fixed order, a failed step is the last one run and
\* its error is the one returned, and a call that returns nil ran them all
StepsInOrder ==
    op = "Unmarshal"
    => /\ Len(ran) <= Len(UnmarshalSteps)
       /\ \A i \in DOMAIN ran : ran[i] = UnmarshalSteps[i]
       /\ err # Nil => (pc = "done" /\ err.kind \in StepErrorKinds(ran[Len(ran)]))
       /\ (pc = "done" /\ err = Nil) => ran = UnmarshalSteps

\* a decoded payload that fails time validation yields the time error,
\* whatever the type check would say
TimeValidationBeforeTypeCheck ==
    (UnmarshalDone /\ Ran("payload") /\ err.kind \notin StepErrorKinds("payload")
     /\ claims.kind = "Claims" /\ ValidFailures(claims, now) # {})
    => err \in ValidFailures(claims, now)

\* C20: step precedence in Unmarshal.  The error returned is that of the
\* earliest failing step in the order segment split, signature-segment
\* decode, header decode, algorithm resolution, signature comparison,
\* payload decode, time validation, type check, and no step runs after one
\* that failed.
StepPrecedence == StepsInOrder /\ TimeValidationBeforeTypeCheck

\* a validly signed token that is expired and whose typ is not "JWT" is
\* refused with the type error
ExpiredTokenGetsTypeError ==
    /\ UnmarshalDone /\ origin.kind = "minted" /\ secret = origin.secret
    /\ origin.target = ZeroClaims("Claims")
    /\ Verified /\ claims.exp = now
    /\ header.Typ = TypInvalid
    /\ ran = UnmarshalSteps
    /\ err = UnsupportedTypeError(TypInvalid)

\* s holds no separator
NoDot(s) == \A i \in DOMAIN s : s[i] # Dot

\* C21: split semantics.  For every text with at least two "." the split
\* succeeds; the header is the text before the first ".", the payload the
\* text between the first and the second ".", and the signature all the
\* rest, further "." included; empty segments come back empty.
SplitSemantics ==
    (op = "b64values.unmarshal" /\ pc = "done" /\ DotCount(jws) >= 2)
    => /\ err = Nil
       /\ NoDot(b64vals.header) /\ NoDot(b64vals.payload)
       /\ jws = b64vals.header \o <<Dot>> \o b64vals.payload \o <<Dot>> \o b64vals.signature
       /\ DotCount(b64vals.signature) = DotCount(jws) - 2

\* ".a.." has been split into an empty header, "a" and "."
SplitSemanticsWitness ==
    /\ op = "b64values.unmarshal" /\ pc = "done" /\ ran = <<"split">>
    /\ jws = <<Dot, 97, Dot, Dot>>
    /\ err = Nil
    /\ b64vals = [header |-> <<>>, payload |-> <<97>>, signature |-> <<Dot>>]

\* the split of a joined text gives back the segments that were joined
SplitGivesBackSegments ==
    (pc = "joined" /\ pc' = "done" /\ NoDot(b64vals.header) /\ NoDot(b64vals.payload))
    => (err' = Nil /\ b64vals' = b64vals)

\* C22: join/split round trip.  join(h, p, s) is h, ".", p, ".", s (".."
\* for three empty segments), and when h and p hold no "." the split of
\* the joined text succeeds and returns h, p and s, whatever s is.
JoinSplitRoundTrip ==
    /\ [](op = "b64values.marshal" =>
            /\ Len(token) = Len(b64vals.header) + Len(b64vals.payload)
                              + Len(b64vals.signature) + 2
            /\ SubSeq(token, 1, Len(b64vals.header)) = b64vals.header
            /\ token[Len(b64vals.header) + 1] = Dot
            /\ pc = "joined" =>
                  /\ SubSeq(token, Len(b64vals.header) + 2,
                            Len(b64vals.header) + 1 + Len(b64vals.payload)) = b64vals.payload
                  /\ token[Len(b64vals.header) + Len(b64vals.payload) + 2] = Dot
                  /\ SubSeq(token, Len(b64vals.header) + Len(b64vals.payload) + 3, Len(token))
                        = b64vals.signature
                  /\ (b64vals = ZeroB64 => token = <<Dot, Dot>>))
    /\ [][SplitGivesBackSegments]_vars

\* "a", "" and ".a" were joined to "a...a" and split into the same segments
JoinSplitWitness ==
    /\ op = "b64values.marshal" /\ pc = "done" /\ ran = <<"join", "split">>
    /\ token = <<97, Dot, Dot, Dot, 97>> /\ jws = token
    /\ err = Nil
    /\ b64vals = [header |-> <<97>>, payload |-> <<>>, signature |-> <<Dot, 97>>]

\* C23: verification uses the segments as received.  A token passes the
\* signature step if and only if its decoded signature segment equals the
\* keyed hash, for the algorithm of the decoded header and the supplied
\* secret, of the received header segment, ".", and the received payload
\* segment; the decoded header is not encoded anew.
VerifiesReceivedSegments ==
    (op = "Unmarshal" /\ Ran("compare"))
    => LET fields == SplitN3(jws)
           digest == HMACSum(HeaderSigner(header).hash, secret,
                             fields[1] \o <<Dot>> \o fields[2])
       IN /\ expectedSignature = DecodeJWTBase64(fields[3]).bytes
          /\ (err # ErrSignatureMismatch) <=> (expectedSignature = digest)

\* a token whose header segment lists typ before alg, signed over that
\* segment as it is, has passed the signature step and been accepted
VerifiesReceivedWitness ==
    /\ UnmarshalDone /\ origin.kind = "crafted" /\ err = Nil
    /\ header = [Alg |-> HS256, Typ |-> JWT]
    /\ b64vals.header # HeaderMarshal(header)
    /\ b64vals.header = SplitN3(jws)[1]
    /\ claims.sub = SubU

\* the steps of Marshal in the order of the code
MarshalSteps == <<"signer", "header", "payload", "sign", "join">>

\* C24: signing input in Marshal.  The third segment of the returned token
\* is the base64url text of the keyed hash, for the header's algorithm and
\* the secret, of the first segment, ".", and the second segment of that
\* same token, which are the encoded header and the encoded payload; and
\* the algorithm is resolved before either segment is encoded, an
\* unsupported one ending the call with nothing encoded.
SigningInput ==
    op = "Marshal"
    => /\ Len(ran) <= Len(MarshalSteps) /\ \A i \in DOMAIN ran : ran[i] = MarshalSteps[i]
       /\ (b64vals # ZeroB64) => (signer # "none" /\ err = Nil)
       /\ (pc = "done" /\ err # Nil) => (ran = <<"signer">> /\ token = <<>>)
       /\ (pc = "done" /\ err = Nil)
            => LET f == SplitN3(token) IN
               /\ Len(f) = 3
               /\ f[1] = EncodeJWTBase64(EncodeJSONHeader(origin.header))
               /\ f[2] = EncodeJWTBase64(EncodeJSONClaims(origin.claims))
               /\ f[3] = EncodeJWTBase64(HMACSum(HeaderSigner(origin.header).hash,
                                                 origin.secret,
                                                 f[1] \o <<Dot>> \o f[2]))

\* Marshal with HS512 has returned a token whose third segment holds the
\* 64-byte keyed hash of its first two segments
SigningInputWitness ==
    /\ MarshalDone /\ err = Nil /\ ran = MarshalSteps
    /\ origin.header = [Alg |-> HS512, Typ |-> JWT] /\ origin.secret = SecretK
    /\ origin.claims = SubUClaims
    /\ LET f == SplitN3(token) IN
         /\ DecodeJWTBase64(f[3]).bytes = HMACSum("SHA512", SecretK, f[1] \o <<Dot>> \o f[2])
         /\ Len(DecodeJWTBase64(f[3]).bytes) = 64

\* a is the name A with some of its letters in the other case
CaseVariantOf(a, A) ==
    /\ Len(a) = Len(A)
    /\ \A i \in DOMAIN A :
          \/ a[i] = A[i]
          \/ (A[i] \in 65..90 /\ a[i] = A[i] + 32)

\* C25: case-insensitive algorithm match.  A header whose alg is "HS256",
\* "HS384" or "HS512" in any mix of upper and lower case selects, in Marshal
\* and in Unmarshal, the primitive of the upper-case name; the token made
\* with it carries the alg as the caller wrote it and verifies with the
\* same secret.
CaseInsensitiveAlg ==
    \A A \in HSAlgs :
        /\ (op \in {"Marshal", "Unmarshal"} /\ Ran("signer") /\ CaseVariantOf(header.Alg, A))
             => /\ signer = HeaderSigner([Alg |-> A, Typ |-> JWT]).hash
                /\ err.kind # UnsupportedAlgorithmError(<<>>).kind
        /\ (MarshalDone /\ CaseVariantOf(origin.header.Alg, A))
             => (err = Nil /\ DecodedHeaders(token) = {origin.header})
        /\ (UnmarshalDone /\ origin.kind = "minted" /\ secret = origin.secret
             /\ CaseVariantOf(origin.header.Alg, A))
             => /\ Verified
                /\ header = origin.header
                /\ (origin.header.Typ = JWT /\ origin.claims.kind # "nil"
                     /\ origin.target = ZeroClaims(origin.claims.kind))
                        => err = Nil

\* a token made with alg "Hs512" has been verified with HMAC-SHA512 and
\* accepted, its header still saying "Hs512"
CaseInsensitiveWitness ==
    /\ UnmarshalDone /\ origin.kind = "minted" /\ secret = origin.secret
    /\ origin.header = [Alg |-> MixedHS512, Typ |-> JWT]
    /\ header.Alg = MixedHS512 /\ signer = "SHA512"
    /\ Len(computedSignature) = 64
    /\ err = Nil

\* C26: a text with more than two "." is refused.  The split leaves the
\* further "." in the third segment, the decode of that segment fails, and
\* Unmarshal returns ErrInvalidToken at that step: the text never reaches
\* the signature comparison and the target is not written.
MoreThanTwoDotsRejected ==
    (UnmarshalDone /\ DotCount(jws) > 2)
    => /\ err = ErrInvalidToken
       /\ ran = <<"split", "decodesig">>
       /\ DotCount(b64vals.signature) = DotCount(jws) - 2
       /\ claims = origin.target

\* a validly signed token with ".x" appended has been refused as invalid
MoreThanTwoDotsWitness ==
    /\ UnmarshalDone /\ origin.kind = "crafted" /\ DotCount(jws) = 3
    /\ b64vals.header = HeaderMarshal([Alg |-> HS256, Typ |-> JWT])
    /\ b64vals.signature
         = EncodeJWTBase64(HMACSum("SHA256", secret, signingMessage(b64vals))) \o TextDotX
    /\ err = ErrInvalidToken

\* a is b cut short
StrictPrefix(a, b) == Len(a) < Len(b) /\ SubSeq(b, 1, Len(a)) = a

\* the keyed hash of the first two segments of the text, for the algorithm
\* of the decoded header and the supplied secret
CorrectSignature ==
    HMACSum(HeaderSigner(header).hash, secret,
            SplitN3(jws)[1] \o <<Dot>> \o SplitN3(jws)[2])

\* nil is returned only for a decoded signature of the digest length that
\* equals the recomputed digest correct
NilOnlyForExactSignature(correct) ==
    err = Nil
    => /\ Len(expectedSignature) = HashSize(HeaderSigner(header).hash)
       /\ Len(expectedSignature) \in {32, 48, 64}
       /\ expectedSignature = correct
       /\ \A i \in DOMAIN expectedSignature : expectedSignature[i] = computedSignature[i]

\* C27 as stated: nil is returned only for an exact signature, and a token
\* with an empty signature segment, a strict prefix of the correct
\* signature or the correct signature with bytes appended is rejected with
\* ErrSignatureMismatch.
ShortSignatureMismatch ==
    /\ (UnmarshalDone /\ err = Nil) => Ran("compare")
    /\ (UnmarshalDone /\ DotCount(jws) >= 2 /\ SplitN3(jws)[3] = <<>>)
         => err = ErrSignatureMismatch
    /\ (UnmarshalDone /\ Ran("compare"))
         => LET correct == CorrectSignature IN
            /\ NilOnlyForExactSignature(correct)
            /\ (\/ StrictPrefix(expectedSignature, correct)
                \/ StrictPrefix(correct, expectedSignature))
                 => err = ErrSignatureMismatch

\* C27: exact signature.  Nil is returned only for a decoded signature of
\* the digest length of the header's algorithm (32, 48 or 64 bytes) that
\* equals the recomputed digest byte for byte; a token whose header decodes
\* to a supported algorithm and whose decoded signature is empty, a strict
\* prefix of the correct signature, or the correct signature with bytes
\* appended is rejected with ErrSignatureMismatch, its target not written.
\* A token with an empty signature segment is never accepted.
ExactSignature ==
    /\ (UnmarshalDone /\ err = Nil) => Ran("compare")
    /\ (UnmarshalDone /\ DotCount(jws) >= 2 /\ SplitN3(jws)[3] = <<>>)
         => err # Nil
    /\ (UnmarshalDone /\ Ran("signer") /\ signer # "none") => Ran("compare")
    /\ (UnmarshalDone /\ Ran("compare"))
         => LET correct == CorrectSignature IN
            /\ NilOnlyForExactSignature(correct)
            /\ (\/ expectedSignature = <<>>
                \/ StrictPrefix(expectedSignature, correct)
                \/ StrictPrefix(correct, expectedSignature))
                 => (err = ErrSignatureMismatch /\ claims = origin.target)

\* an HS256 token presented with the first 31 bytes of its signature has
\* been rejected by the comparison
ExactSignatureWitness ==
    /\ UnmarshalDone /\ origin.kind = "crafted"
    /\ header = [Alg |-> HS256, Typ |-> JWT]
    /\ Len(expectedSignature) = 31
    /\ StrictPrefix(expectedSignature, computedSignature)
    /\ computedSignature = CorrectSignature
    /\ err = ErrSignatureMismatch /\ ran[Len(ran)] = "compare"

\* the target changes only in the payload decode step of a verified token
TargetWrittenByPayloadDecode ==
    (op = "Unmarshal" /\ pc' # "idle" /\ claims' # claims)
    => (pc = "u_payload" /\ Verified)

\* C28: the target is left alone on early errors.  Whenever Unmarshal
\* returns ErrInvalidToken, a header decode error, UnsupportedAlgorithmError
\* or ErrSignatureMismatch, the caller's claims target is exactly as it was
\* passed; the target is written only by the payload decode step, which
\* runs after the signature matched.
TargetKeptOnEarlyError ==
    /\ [](op = "Unmarshal" =>
            /\ ~Ran("payload") => claims = origin.target
            /\ Ran("payload") => Verified
            /\ (pc = "done"
                /\ (\/ err \in {ErrInvalidToken, ErrSignatureMismatch}
                    \/ err.kind = UnsupportedAlgorithmError(<<>>).kind
                    \/ (err \in {ErrBase64, ErrJSON} /\ ran[Len(ran)] = "header")))
                 => claims = origin.target)
    /\ [][TargetWrittenByPayloadDecode]_vars

\* a target that already held claims is unchanged after a token signed
\* with another secret was refused
TargetKeptWitness ==
    /\ UnmarshalDone /\ origin.kind = "minted" /\ secret # origin.secret
    /\ origin.target = FilledTarget /\ origin.claims = SubUClaims
    /\ err = ErrSignatureMismatch
    /\ claims = FilledTarget /\ claims.iss = IssMyApp

\* C29: the type error comes last.  Unmarshal returns UnsupportedTypeError
\* only for a token whose signature verified under the supplied secret and
\* whose payload decoded without error; the type check is the last step,
\* and when it refuses the typ the target holds the claims decoded from
\* the token's payload: it is not put back.
TypeErrorAfterDecode ==
    (UnmarshalDone /\ err.kind = UnsupportedTypeError(<<>>).kind)
    => /\ Verified
       /\ ran = UnmarshalSteps
       /\ header.Typ # JWT /\ err = UnsupportedTypeError(header.Typ)
       /\ claims \in {out.value : out \in {o \in PayloadUnmarshal(SplitN3(jws)[2], origin.target) :
                                               o.err = Nil}}
       /\ (origin.kind = "minted" /\ origin.claims.kind # "nil"
           /\ origin.target = ZeroClaims(origin.claims.kind))
            => claims = origin.claims

\* a verified token of typ "INVALID" has been refused, and the target
\* holds its subject
TypeErrorWitness ==
    /\ UnmarshalDone /\ origin.kind = "minted" /\ secret = origin.secret
    /\ origin.header = [Alg |-> HS384, Typ |-> TypInvalid]
    /\ origin.claims = SubUClaims /\ origin.target = ZeroClaims("Claims")
    /\ err = UnsupportedTypeError(TypInvalid)
    /\ claims = SubUClaims /\ claims # origin.target

\* the times up to the present at which claims are looked at
TimesUpToNow == {t \in TimeValues : t # 0 /\ t <= now}

====
